---- MODULE Spec2Model ----
(***************************************************************************)
(* The anti-floodnet engine of erssi (src/irc/anti-floodnet): the message   *)
(* detector (tilde-ident and duplicate-text rules), the CTCP detector, the  *)
(* two-phase nick-change detector, the three expiring blocklists and the    *)
(* protection-mode controller.                                              *)
(*                                                                          *)
(* One action is one signal handler, run to completion.  Every time(NULL)   *)
(* read inside one handler returns the same value, the variable now.        *)
(* Strings the code only compares (message texts, channel names, server     *)
(* pointers) are model values; the sender mask, which check_tilde_ident     *)
(* parses, is a sequence of characters.                                     *)
(***************************************************************************)
EXTENDS Integers, Sequences, FiniteSets, TLC

VARIABLES
    now,            \* the wall clock read by time(NULL)
    enabled,        \* the setting anti_floodnet_enabled
    host,           \* the events the host delivers in this run, and how many
    floodnet,       \* the ANTI_FLOODNET_REC singleton
    ctcp_tracking,  \* floodnet-ctcp.c: server -> SERVER_CTCP_REC
    printed,        \* the notices printtext() emitted in the last handler
    ev,             \* the last handler run: its return path, whether it called
                    \* signal_stop(), whether a detector threshold was met
    inserted_at,    \* history: when each blocklist entry was last written
    fired           \* history: a detector threshold was met since the last exit

vars == <<now, enabled, host, floodnet, ctcp_tracking, printed, ev, inserted_at, fired>>

----------------------------------------------------------------------------
(* Program constants *)

DEFAULT_TILDE_THRESHOLD == 5
DEFAULT_DUPLICATE_THRESHOLD == 3
DEFAULT_CTCP_THRESHOLD == 5
DEFAULT_NICKCHANGE_THRESHOLD == 5
DEFAULT_BLOCK_DURATION == 60
DEFAULT_TIME_WINDOW == 5
DEFAULT_NICKCHANGE_WINDOW == 3
DEFAULT_NOTICE_INTERVAL == 60
DUPLICATE_MIN_MESSAGES == 5

----------------------------------------------------------------------------
(* The host: inputs of the handlers *)

\* address as delivered with "event privmsg": user@host, or a full mask
Unverified == <<"~", "u", "@", "h">>
Verified == <<"u", "@", "h">>
TildeInHost == <<"u", "@", "~">>
FullMask == <<"m", "!", "~", "u", "@", "h">>
Nicks == {<<"n">>}
Servers == {"s1", "s2"}
\* server->channels, in list order; "#a" is joined on both servers
ServerChannels == [s1 |-> <<"#a", "#b">>, s2 |-> <<"#a">>]
ChannelNames == {"#a", "#b"}

Range(s) == {s[i] : i \in 1..Len(s)}
NoBlocks == [k \in {} |-> 0]

----------------------------------------------------------------------------
(* anti-floodnet.c *)

\* settings_get_int(...) with 0 replaced by the default
read_setting(value, default) == IF value = 0 THEN default ELSE value

\* strchr: the first index >= from holding c, or 0 for NULL
strchr(s, from, c) ==
    LET hits == {i \in from..Len(s) : s[i] = c}
    IN  IF hits = {} THEN 0 ELSE CHOOSE i \in hits : \A j \in hits : i <= j

\* check_tilde_ident finding no marker in any identity
check_tilde_ident_never(userhost) == FALSE

check_tilde_ident(userhost) ==
    LET excl_mark == strchr(userhost, 1, "!")
    IN  IF excl_mark = 0 THEN FALSE
        ELSE LET tilde == strchr(userhost, excl_mark + 1, "~")
                 at    == strchr(userhost, excl_mark, "@")
             IN  tilde # 0 /\ tilde < at

\* add_message_to_window recording nothing while protection mode is Active
add_message_to_window_outside_protection(f, userhost, text, timestamp) ==
    IF f.in_protection_mode THEN f
    ELSE [f EXCEPT !.message_window =
                       <<[timestamp |-> timestamp, text |-> text,
                          has_tilde |-> check_tilde_ident(userhost)]>> \o @,
                   !.message_count = @ + 1]

\* g_slist_prepend + message_count++
add_message_to_window(f, userhost, text, timestamp) ==
    [f EXCEPT !.message_window =
                  <<[timestamp |-> timestamp, text |-> text,
                     has_tilde |-> check_tilde_ident(userhost)]>> \o @,
              !.message_count = @ + 1]

\* the purge also dropping the records at the cutoff (<= for <)
RECURSIVE remove_older_or_at(_, _)
remove_older_or_at(list, cutoff) ==
    IF list = <<>> THEN <<>>
    ELSE IF Head(list).timestamp <= cutoff THEN remove_older_or_at(Tail(list), cutoff)
         ELSE <<Head(list)>> \o remove_older_or_at(Tail(list), cutoff)

RECURSIVE remove_older(_, _)
remove_older(list, cutoff) ==
    IF list = <<>> THEN <<>>
    ELSE IF Head(list).timestamp < cutoff THEN remove_older(Tail(list), cutoff)
         ELSE <<Head(list)>> \o remove_older(Tail(list), cutoff)

\* cleanup_old_messages without the message_count-- of the loop
cleanup_old_messages_keeping_count(f, t) ==
    [f EXCEPT !.message_window = remove_older(f.message_window, t - f.time_window)]

cleanup_old_messages(f, t) ==
    LET cutoff == t - f.time_window
        kept   == remove_older(f.message_window, cutoff)
    IN  [f EXCEPT !.message_window = kept,
                  !.message_count = @ - (Len(f.message_window) - Len(kept))]

\* count_tilde_users answering for the newest record alone: the whole window
\* when the current sender has the marker, nothing when it has not
count_tilde_users_of_sender(f) ==
    IF f.message_window # <<>> /\ Head(f.message_window).has_tilde
    THEN Len(f.message_window) ELSE 0

count_tilde_users(f) ==
    Cardinality({i \in 1..Len(f.message_window) : f.message_window[i].has_tilde})

\* occurrences of a text in the window (the freqs hash table)
freq(f, text) ==
    Cardinality({i \in 1..Len(f.message_window) : f.message_window[i].text = text})

\* max_count of find_most_common_message
most_common_count(f) ==
    LET counts == {freq(f, f.message_window[i].text) : i \in 1..Len(f.message_window)}
    IN  IF counts = {} THEN 0 ELSE CHOOSE c \in counts : \A d \in counts : d <= c

\* find_most_common_message returning every text of the window
find_any_message(f) == {f.message_window[i].text : i \in 1..Len(f.message_window)}

\* find_most_common_message keeping the smaller count (cnt < max_count)
find_least_common_message(f) ==
    LET texts == {f.message_window[i].text : i \in 1..Len(f.message_window)}
    IN  {text \in texts : \A other \in texts : freq(f, text) <= freq(f, other)}

\* the texts find_most_common_message can return: the hash table is iterated
\* in an order the code does not control, and the first key with the largest
\* count wins (cnt > max_count)
find_most_common_message(f) ==
    LET max_count == most_common_count(f)
    IN  {text \in {f.message_window[i].text : i \in 1..Len(f.message_window)} :
            freq(f, text) = max_count}

\* is_message_blocked still answering blocked at the expiry time (<= for <)
is_message_blocked_at_expiry(f, text, t) ==
    text \in DOMAIN f.blocked_patterns /\ t <= f.blocked_patterns[text]

\* the value is_message_blocked returns
is_message_blocked(f, text, t) ==
    text \in DOMAIN f.blocked_patterns /\ t < f.blocked_patterns[text]

\* the state is_message_blocked leaves: an expired entry is removed
is_message_blocked_remove(f, text, t) ==
    IF text \in DOMAIN f.blocked_patterns /\ ~(t < f.blocked_patterns[text])
    THEN [f EXCEPT !.blocked_patterns =
                       [k \in DOMAIN f.blocked_patterns \ {text} |-> f.blocked_patterns[k]]]
    ELSE f

block_duplicate_message(f, text, duration, t) ==
    [f EXCEPT !.blocked_patterns =
                  [k \in DOMAIN f.blocked_patterns \cup {text} |->
                      IF k = text THEN t + duration ELSE f.blocked_patterns[k]]]

\* the pair <<floodnet, printed>> after each controller call

\* enter_protection_mode leaving last_protection_notice as it was
enter_protection_mode_notice_unset(f, out, t) ==
    IF ~f.in_protection_mode
    THEN <<[f EXCEPT !.in_protection_mode = TRUE,
                     !.protection_started = t,
                     !.blocked_since_notice = 0],
           Append(out, "ACTIVATED")>>
    ELSE <<f, out>>

\* enter_protection_mode without the in_protection_mode test
enter_protection_mode_again(f, out, t) ==
    <<[f EXCEPT !.in_protection_mode = TRUE,
                !.protection_started = t,
                !.last_protection_notice = t,
                !.blocked_since_notice = 0],
      Append(out, "ACTIVATED")>>

enter_protection_mode(f, out, t) ==
    IF ~f.in_protection_mode
    THEN <<[f EXCEPT !.in_protection_mode = TRUE,
                     !.protection_started = t,
                     !.last_protection_notice = t,
                     !.blocked_since_notice = 0],
           Append(out, "ACTIVATED")>>
    ELSE <<f, out>>

exit_protection_mode(f, out, t) ==
    IF f.in_protection_mode
    THEN <<[f EXCEPT !.in_protection_mode = FALSE,
                     !.blocked_since_notice = 0],
           Append(out, "ended")>>
    ELSE <<f, out>>

\* the text of the periodic notice: "Still active (%ds elapsed, %d blocked since
\* last notice)" of total_duration and blocked_since_notice
still_active_notice(total_duration, blocked) ==
    "still active " \o ToString(total_duration) \o "s " \o ToString(blocked)

\* check_protection_status leaving already at the deadline (>= for >)
check_protection_status_at_deadline(f, out, t) ==
    IF ~f.in_protection_mode THEN <<f, out>>
    ELSE LET elapsed == t - f.last_protection_notice
             notice  == elapsed >= f.protection_notice_interval
             f1   == IF notice
                     THEN [f EXCEPT !.last_protection_notice = t,
                                    !.blocked_since_notice = 0]
                     ELSE f
             out1 == IF notice
                     THEN Append(out, still_active_notice(t - f.protection_started,
                                                          f.blocked_since_notice))
                     ELSE out
         IN  IF f1.message_count = 0
                /\ (t - f1.protection_started) >= (f1.block_duration + f1.time_window)
             THEN exit_protection_mode(f1, out1, t)
             ELSE <<f1, out1>>

\* check_protection_status printing the periodic notice at every call, due or not
check_protection_status_every_call(f, out, t) ==
    IF ~f.in_protection_mode THEN <<f, out>>
    ELSE LET f1   == [f EXCEPT !.last_protection_notice = t,
                               !.blocked_since_notice = 0]
             out1 == Append(out, still_active_notice(t - f.protection_started,
                                                     f.blocked_since_notice))
         IN  IF f1.message_count = 0
                /\ (t - f1.protection_started) > (f1.block_duration + f1.time_window)
             THEN exit_protection_mode(f1, out1, t)
             ELSE <<f1, out1>>

\* check_protection_status printing the notice without resetting the counter
check_protection_status_keeping_count(f, out, t) ==
    IF ~f.in_protection_mode THEN <<f, out>>
    ELSE LET elapsed == t - f.last_protection_notice
             notice  == elapsed >= f.protection_notice_interval
             f1   == IF notice THEN [f EXCEPT !.last_protection_notice = t] ELSE f
             out1 == IF notice
                     THEN Append(out, still_active_notice(t - f.protection_started,
                                                          f.blocked_since_notice))
                     ELSE out
         IN  IF f1.message_count = 0
                /\ (t - f1.protection_started) > (f1.block_duration + f1.time_window)
             THEN exit_protection_mode(f1, out1, t)
             ELSE <<f1, out1>>

check_protection_status(f, out, t) ==
    IF ~f.in_protection_mode THEN <<f, out>>
    ELSE LET elapsed == t - f.last_protection_notice
             notice  == elapsed >= f.protection_notice_interval
             f1   == IF notice
                     THEN [f EXCEPT !.last_protection_notice = t,
                                    !.blocked_since_notice = 0]
                     ELSE f
             out1 == IF notice
                     THEN Append(out, still_active_notice(t - f.protection_started,
                                                          f.blocked_since_notice))
                     ELSE out
         IN  IF f1.message_count = 0
                /\ (t - f1.protection_started) > (f1.block_duration + f1.time_window)
             THEN exit_protection_mode(f1, out1, t)
             ELSE <<f1, out1>>

\* the "Block all messages in current window" loop of Pattern A, from the head
RECURSIVE block_window(_, _, _)
\* the Pattern A loop blocking every text of the window anew, blocked or not
block_window_renewing(f, list, t) ==
    [f EXCEPT !.blocked_patterns =
                  [k \in DOMAIN @ \cup {list[i].text : i \in 1..Len(list)} |->
                      IF k \in {list[i].text : i \in 1..Len(list)}
                      THEN t + f.block_duration ELSE @[k]]]

\* the Pattern A loop blocking the newest record's text only
block_window_newest_only(f, list, t) ==
    IF list = <<>> THEN f
    ELSE block_duplicate_message(f, Head(list).text, f.block_duration, t)

block_window(f, list, t) ==
    IF list = <<>> THEN f
    ELSE LET text == Head(list).text
             f1   == IF ~is_message_blocked(f, text, t)
                     THEN block_duplicate_message(is_message_blocked_remove(f, text, t),
                                                  text, f.block_duration, t)
                     ELSE f
         IN  block_window(f1, Tail(list), t)

\* counting a blocked message in blocked_since_notice alone
counted_since_notice_only(f) == [f EXCEPT !.blocked_since_notice = @ + 1]

\* counting a blocked message in the total alone
counted_total_only(f) == [f EXCEPT !.total_messages_blocked = @ + 1]

counted(f) ==
    [f EXCEPT !.total_messages_blocked = @ + 1, !.blocked_since_notice = @ + 1]

\* what one call leaves: the engine, the notices, the return path, whether
\* signal_stop() ran, whether a threshold was met, whether auto-exit ran
Outcome(f, out, path, stopped, met, exited) ==
    [f |-> f, out |-> out, path |-> path, stopped |-> stopped,
     met |-> met, exited |-> exited]

\* check_message_flood; most_common is the text find_most_common_message
\* returns when Pattern B is reached
check_message_flood(f, on, nick, address, text, t, most_common) ==
    IF ~on THEN Outcome(f, <<>>, "disabled", FALSE, FALSE, FALSE)
    ELSE
    LET st       == check_protection_status(f, <<>>, t)
        exited   == f.in_protection_mode /\ ~st[1].in_protection_mode
        userhost == IF strchr(address, 1, "!") # 0 THEN address
                    ELSE nick \o <<"!">> \o address
        f2       == cleanup_old_messages(st[1], t)
    IN  IF f2.in_protection_mode
           /\ (is_message_blocked(f2, text, t) \/ check_tilde_ident(userhost))
        THEN Outcome(counted(is_message_blocked_remove(f2, text, t)), st[2],
                     "protection", TRUE, FALSE, exited)
        ELSE
        LET f3 == add_message_to_window(
                      IF f2.in_protection_mode
                      THEN is_message_blocked_remove(f2, text, t) ELSE f2,
                      userhost, text, t)
        IN  IF f3.message_count >= f3.tilde_threshold
               /\ count_tilde_users(f3) >= f3.tilde_threshold
            THEN LET en == enter_protection_mode(f3, st[2], t)
                     f4 == [counted(en[1]) EXCEPT !.flood_attempts_today = @ + 1]
                 IN  Outcome(block_window(f4, f4.message_window, t), en[2],
                             "tilde", TRUE, TRUE, exited)
            ELSE IF f3.message_count >= DUPLICATE_MIN_MESSAGES
                    /\ most_common_count(f3) >= f3.duplicate_threshold
            THEN LET fresh == ~is_message_blocked(f3, most_common, t)
                     en == IF fresh
                           THEN enter_protection_mode(
                                    is_message_blocked_remove(f3, most_common, t), st[2], t)
                           ELSE <<f3, st[2]>>
                     f4 == IF fresh
                           THEN [block_duplicate_message(en[1], most_common,
                                                         f3.block_duration, t)
                                   EXCEPT !.flood_attempts_today = @ + 1]
                           ELSE f3
                 IN  IF text = most_common
                     THEN Outcome(counted(f4), en[2], "duplicate", TRUE, TRUE, exited)
                     ELSE Outcome(f4, en[2], "allow", FALSE, TRUE, exited)
            ELSE Outcome(f3, st[2], "allow", FALSE, FALSE, exited)

\* the texts find_most_common_message can hand Pattern B in this call (the
\* window it reads does not depend on the text it returns)
MostCommonChoices(f, on, nick, address, text, t) ==
    LET o == check_message_flood(f, on, nick, address, text, t, text)
    IN  IF o.met /\ o.path # "tilde" THEN find_most_common_message(o.f) ELSE {text}

----------------------------------------------------------------------------
(* floodnet-ctcp.c *)

RECURSIVE remove_older_ctcp(_, _)
remove_older_ctcp(list, cutoff) ==
    IF list = <<>> THEN <<>>
    ELSE IF Head(list) < cutoff THEN remove_older_ctcp(Tail(list), cutoff)
         ELSE <<Head(list)>> \o remove_older_ctcp(Tail(list), cutoff)

cleanup_old_ctcp(f, rec, t) ==
    LET cutoff == t - f.time_window
        kept   == remove_older_ctcp(rec.ctcp_timestamps, cutoff)
    IN  [ctcp_timestamps |-> kept,
         ctcp_count |-> rec.ctcp_count - (Len(rec.ctcp_timestamps) - Len(kept))]

\* is_ctcp_blocked looking at the blocks of every server instead of one
is_ctcp_blocked_any_server(f, server, t) ==
    \E k \in DOMAIN f.ctcp_blocked_until : t < f.ctcp_blocked_until[k]

\* is_ctcp_blocked answering blocked only while protection mode is Active
is_ctcp_blocked_under_protection(f, server, t) ==
    /\ f.in_protection_mode
    /\ server \in DOMAIN f.ctcp_blocked_until
    /\ t < f.ctcp_blocked_until[server]

\* is_ctcp_blocked still answering blocked at the expiry time (<= for <)
is_ctcp_blocked_at_expiry(f, server, t) ==
    server \in DOMAIN f.ctcp_blocked_until /\ t <= f.ctcp_blocked_until[server]

is_ctcp_blocked(f, server, t) ==
    server \in DOMAIN f.ctcp_blocked_until /\ t < f.ctcp_blocked_until[server]

is_ctcp_blocked_remove(f, server, t) ==
    IF server \in DOMAIN f.ctcp_blocked_until /\ ~(t < f.ctcp_blocked_until[server])
    THEN [f EXCEPT !.ctcp_blocked_until =
                       [k \in DOMAIN f.ctcp_blocked_until \ {server} |->
                           f.ctcp_blocked_until[k]]]
    ELSE f

\* check_ctcp_flood: the outcome and, in field tracking, the new ctcp_tracking
\* check_ctcp_flood renewing the block at every rejected request, as Phase A
\* does for a channel
check_ctcp_flood_extending(f, tracking, on, server, t) ==
    IF ~on
    THEN Outcome(f, <<>>, "disabled", FALSE, FALSE, FALSE) @@ [tracking |-> tracking]
    ELSE IF is_ctcp_blocked(f, server, t)
    THEN Outcome(counted([f EXCEPT !.ctcp_blocked_until[server] = t + f.block_duration]),
                 <<>>, "blocked", TRUE, FALSE, FALSE)
             @@ [tracking |-> tracking]
    ELSE
    LET f1  == is_ctcp_blocked_remove(f, server, t)
        r1  == cleanup_old_ctcp(f1, tracking[server], t)
        rec == [ctcp_timestamps |-> <<t>> \o r1.ctcp_timestamps,
                ctcp_count |-> r1.ctcp_count + 1]
        tr  == [tracking EXCEPT ![server] = rec]
    IN  IF rec.ctcp_count >= f1.ctcp_threshold
        THEN LET en == enter_protection_mode(f1, <<>>, t)
                 f2 == [en[1] EXCEPT !.ctcp_blocked_until =
                           [k \in DOMAIN en[1].ctcp_blocked_until \cup {server} |->
                               IF k = server THEN t + f1.block_duration
                               ELSE en[1].ctcp_blocked_until[k]]]
                 f3 == [counted(f2) EXCEPT !.flood_attempts_today = @ + 1]
             IN  Outcome(f3, en[2], "threshold", TRUE, TRUE, FALSE) @@ [tracking |-> tr]
        ELSE Outcome(f1, <<>>, "allow", FALSE, FALSE, FALSE) @@ [tracking |-> tr]

check_ctcp_flood(f, tracking, on, server, t) ==
    IF ~on
    THEN Outcome(f, <<>>, "disabled", FALSE, FALSE, FALSE) @@ [tracking |-> tracking]
    ELSE IF is_ctcp_blocked(f, server, t)
    THEN Outcome(counted(f), <<>>, "blocked", TRUE, FALSE, FALSE)
             @@ [tracking |-> tracking]
    ELSE
    LET f1  == is_ctcp_blocked_remove(f, server, t)
        r1  == cleanup_old_ctcp(f1, tracking[server], t)
        rec == [ctcp_timestamps |-> <<t>> \o r1.ctcp_timestamps,
                ctcp_count |-> r1.ctcp_count + 1]
        tr  == [tracking EXCEPT ![server] = rec]
    IN  IF rec.ctcp_count >= f1.ctcp_threshold
        THEN LET en == enter_protection_mode(f1, <<>>, t)
                 f2 == [en[1] EXCEPT !.ctcp_blocked_until =
                           [k \in DOMAIN en[1].ctcp_blocked_until \cup {server} |->
                               IF k = server THEN t + f1.block_duration
                               ELSE en[1].ctcp_blocked_until[k]]]
                 f3 == [counted(f2) EXCEPT !.flood_attempts_today = @ + 1]
             IN  Outcome(f3, en[2], "threshold", TRUE, TRUE, FALSE) @@ [tracking |-> tr]
        ELSE Outcome(f1, <<>>, "allow", FALSE, FALSE, FALSE) @@ [tracking |-> tr]

----------------------------------------------------------------------------
(* floodnet-nick.c *)

\* a lookup that never answers blocked
is_nick_channel_blocked_never(f, channel, t) == FALSE

is_nick_channel_blocked(f, channel, t) ==
    channel \in DOMAIN f.nick_blocked_channels /\ t < f.nick_blocked_channels[channel]

\* a lookup that leaves the expired entry stored
is_nick_channel_blocked_keep(f, channel, t) == f

is_nick_channel_blocked_remove(f, channel, t) ==
    IF channel \in DOMAIN f.nick_blocked_channels
       /\ ~(t < f.nick_blocked_channels[channel])
    THEN [f EXCEPT !.nick_blocked_channels =
                       [k \in DOMAIN f.nick_blocked_channels \ {channel} |->
                           f.nick_blocked_channels[k]]]
    ELSE f

RECURSIVE remove_older_changes(_, _)
remove_older_changes(list, cutoff) ==
    IF list = <<>> THEN <<>>
    ELSE IF Head(list).timestamp < cutoff THEN remove_older_changes(Tail(list), cutoff)
         ELSE <<Head(list)>> \o remove_older_changes(Tail(list), cutoff)

cleanup_old_nick_changes(f, rec, t) ==
    LET cutoff == t - f.nickchange_window
        kept   == remove_older_changes(rec.nick_changes, cutoff)
    IN  [nick_changes |-> kept,
         change_count |-> rec.change_count - (Len(rec.nick_changes) - Len(kept))]

\* extend_channel_block adding block_duration to the expiry already stored
extend_channel_block_accumulating(f, channel, t) ==
    [f EXCEPT !.nick_blocked_channels =
                  [k \in DOMAIN f.nick_blocked_channels \cup {channel} |->
                      IF k # channel THEN f.nick_blocked_channels[k]
                      ELSE IF k \in DOMAIN f.nick_blocked_channels
                      THEN f.nick_blocked_channels[k] + f.block_duration
                      ELSE t + f.block_duration]]

\* extend_channel_block leaving an existing entry's expiry as it is
extend_channel_block_new_only(f, channel, t) ==
    [f EXCEPT !.nick_blocked_channels =
                  [k \in DOMAIN f.nick_blocked_channels \cup {channel} |->
                      IF k \in DOMAIN f.nick_blocked_channels
                      THEN f.nick_blocked_channels[k]
                      ELSE t + f.block_duration]]

extend_channel_block(f, channel, t) ==
    [f EXCEPT !.nick_blocked_channels =
                  [k \in DOMAIN f.nick_blocked_channels \cup {channel} |->
                      IF k = channel THEN t + f.block_duration
                      ELSE f.nick_blocked_channels[k]]]

\* the loop extending every blocked channel that holds the new nick
message_nick_loop_every_channel(f, channels, present, t) ==
    LET hits == {c \in Range(channels) \cap present : is_nick_channel_blocked(f, c, t)}
    IN  IF hits = {} THEN Outcome(f, <<>>, "allow", FALSE, FALSE, FALSE)
        ELSE Outcome(counted([f EXCEPT !.nick_blocked_channels =
                                 [k \in DOMAIN @ |->
                                     IF k \in hits THEN t + f.block_duration ELSE @[k]]]),
                     <<>>, "blocked", TRUE, FALSE, FALSE)

\* the loop of sig_message_nick over server->channels; present is the set of
\* channels on which nicklist_find(channel, newnick) finds the new nick
RECURSIVE message_nick_loop(_, _, _, _)
message_nick_loop(f, channels, present, t) ==
    IF channels = <<>> THEN Outcome(f, <<>>, "allow", FALSE, FALSE, FALSE)
    ELSE LET name == Head(channels)
         IN  IF is_nick_channel_blocked(f, name, t)
             THEN IF name \in present
                  THEN Outcome(counted(extend_channel_block(f, name, t)), <<>>,
                               "blocked", TRUE, FALSE, FALSE)
                  ELSE message_nick_loop(f, Tail(channels), present, t)
             ELSE message_nick_loop(is_nick_channel_blocked_remove(f, name, t),
                                    Tail(channels), present, t)

\* sig_message_nick without the anti_floodnet_enabled test
sig_message_nick_while_disabled(f, on, server, present, t) ==
    message_nick_loop(f, ServerChannels[server], present, t)

sig_message_nick(f, on, server, present, t) ==
    IF ~on THEN Outcome(f, <<>>, "disabled", FALSE, FALSE, FALSE)
    ELSE message_nick_loop(f, ServerChannels[server], present, t)

sig_nicklist_changed(f, on, channel, t) ==
    IF ~on THEN Outcome(f, <<>>, "disabled", FALSE, FALSE, FALSE)
    ELSE IF is_nick_channel_blocked(f, channel, t)
    THEN Outcome(extend_channel_block(f, channel, t), <<>>, "extended",
                 FALSE, FALSE, FALSE)
    ELSE
    LET f1  == is_nick_channel_blocked_remove(f, channel, t)
        r1  == cleanup_old_nick_changes(f1, f1.channel_nick_changes[channel], t)
        rec == [nick_changes |-> <<[timestamp |-> t]>> \o r1.nick_changes,
                change_count |-> r1.change_count + 1]
        f2  == [f1 EXCEPT !.channel_nick_changes[channel] = rec]
    IN  IF rec.change_count >= f2.nickchange_threshold
        THEN LET en == enter_protection_mode(f2, <<>>, t)
                 f3 == [extend_channel_block(en[1], channel, t)
                           EXCEPT !.flood_attempts_today = @ + 1]
             IN  Outcome(f3, en[2], "threshold", FALSE, TRUE, FALSE)
        ELSE Outcome(f2, <<>>, "tracked", FALSE, FALSE, FALSE)

----------------------------------------------------------------------------
(* floodnet-stats.c *)

\* the calendar date of a time: the run crosses at most one midnight
localtime(t, midnight) == IF t >= midnight THEN 1 ELSE 0

\* localtime returns a pointer to a static object that a later call may
\* overwrite: with a shared object tm_now and tm_last are the same date
check_daily_reset(f, t, midnight, shared) ==
    LET tm_last == localtime(f.last_reset_date, midnight)
        tm_now == IF shared THEN tm_last ELSE localtime(t, midnight)
    IN  IF tm_now # tm_last
        THEN [f EXCEPT !.flood_attempts_today = 0, !.last_reset_date = t]
        ELSE f

unexpired(map, t) == [k \in {j \in DOMAIN map : ~(t >= map[j])} |-> map[k]]

\* a sweep that keeps the entries expiring at the time of the sweep (> for >=)
cleanup_expired_blocks_after_expiry(f, t) ==
    [f EXCEPT !.blocked_patterns = [k \in {j \in DOMAIN @ : ~(t > @[j])} |-> @[k]],
              !.ctcp_blocked_until = [k \in {j \in DOMAIN @ : ~(t > @[j])} |-> @[k]],
              !.nick_blocked_channels = [k \in {j \in DOMAIN @ : ~(t > @[j])} |-> @[k]]]

\* a sweep that also ends protection mode once no block is left
cleanup_expired_blocks_ending_protection(f, t) ==
    LET g == [f EXCEPT !.blocked_patterns = unexpired(f.blocked_patterns, t),
                       !.ctcp_blocked_until = unexpired(f.ctcp_blocked_until, t),
                       !.nick_blocked_channels = unexpired(f.nick_blocked_channels, t)]
    IN  IF g.blocked_patterns = NoBlocks /\ g.ctcp_blocked_until = NoBlocks
           /\ g.nick_blocked_channels = NoBlocks
        THEN [g EXCEPT !.in_protection_mode = FALSE]
        ELSE g

\* a sweep that removes every entry of the message blocklist
cleanup_expired_blocks_all_patterns(f, t) ==
    [f EXCEPT !.blocked_patterns = NoBlocks,
              !.ctcp_blocked_until = unexpired(f.ctcp_blocked_until, t),
              !.nick_blocked_channels = unexpired(f.nick_blocked_channels, t)]

cleanup_expired_blocks(f, t) ==
    [f EXCEPT !.blocked_patterns = unexpired(f.blocked_patterns, t),
              !.ctcp_blocked_until = unexpired(f.ctcp_blocked_until, t),
              !.nick_blocked_channels = unexpired(f.nick_blocked_channels, t)]

\* a printed text is a sequence of words, each a "%d" conversion and the
\* letters that follow it; "expired" has no conversion
Word(d, letters) == [d |-> d, s |-> letters]

format_time_remaining_minutes_of_total(expiry_time, t) ==
    LET remaining == expiry_time - t
    IN  IF remaining <= 0 THEN <<Word(0, "expired")>>
        ELSE IF remaining < 60 THEN <<Word(remaining, "s")>>
        ELSE IF remaining < 3600
        THEN <<Word(remaining \div 60, "m"), Word(remaining % 60, "s")>>
        ELSE <<Word(remaining \div 3600, "h"), Word(remaining \div 60, "m"),
               Word(remaining % 60, "s")>>

format_time_remaining(expiry_time, t) ==
    LET remaining == expiry_time - t
    IN  IF remaining <= 0 THEN <<Word(0, "expired")>>
        ELSE IF remaining < 60 THEN <<Word(remaining, "s")>>
        ELSE IF remaining < 3600
        THEN <<Word(remaining \div 60, "m"), Word(remaining % 60, "s")>>
        ELSE <<Word(remaining \div 3600, "h"), Word((remaining % 3600) \div 60, "m"),
               Word(remaining % 60, "s")>>

\* the "(expires: ...)" texts of /FLOODNET DETAILS, one for each stored entry
details_lines(f, t) ==
    [patterns |-> [k \in DOMAIN f.blocked_patterns |->
                      format_time_remaining(f.blocked_patterns[k], t)],
     servers  |-> [k \in DOMAIN f.ctcp_blocked_until |->
                      format_time_remaining(f.ctcp_blocked_until[k], t)],
     channels |-> [k \in DOMAIN f.nick_blocked_channels |->
                      format_time_remaining(f.nick_blocked_channels[k], t)]]

\* the three g_hash_table_size numbers /FLOODNET STATUS prints after the sweep
status_counts(f) ==
    [active_blocks |-> Cardinality(DOMAIN f.blocked_patterns),
     ctcp_blocks   |-> Cardinality(DOMAIN f.ctcp_blocked_until),
     nick_blocks   |-> Cardinality(DOMAIN f.nick_blocked_channels)]

\* /FLOODNET RESET
reset_statistics_keeping_total(f, t) ==
    [f EXCEPT !.flood_attempts_today = 0, !.last_reset_date = t]

reset_statistics(f, t) ==
    [f EXCEPT !.flood_attempts_today = 0,
              !.total_messages_blocked = 0,
              !.last_reset_date = t]

----------------------------------------------------------------------------
(* The state after irc_anti_floodnet_init, for the settings the host holds *)

Settings(tilde, duplicate, ctcp, nickchange, block, window, nickwindow, interval) ==
    [tilde_threshold |-> read_setting(tilde, DEFAULT_TILDE_THRESHOLD),
     duplicate_threshold |-> read_setting(duplicate, DEFAULT_DUPLICATE_THRESHOLD),
     ctcp_threshold |-> read_setting(ctcp, DEFAULT_CTCP_THRESHOLD),
     nickchange_threshold |-> read_setting(nickchange, DEFAULT_NICKCHANGE_THRESHOLD),
     block_duration |-> read_setting(block, DEFAULT_BLOCK_DURATION),
     time_window |-> read_setting(window, DEFAULT_TIME_WINDOW),
     nickchange_window |-> read_setting(nickwindow, DEFAULT_NICKCHANGE_WINDOW),
     protection_notice_interval |-> read_setting(interval, DEFAULT_NOTICE_INTERVAL)]

irc_anti_floodnet_init(settings) ==
    [message_window |-> <<>>,
     message_count |-> 0,
     channel_nick_changes |->
         [c \in ChannelNames |-> [nick_changes |-> <<>>, change_count |-> 0]],
     blocked_patterns |-> NoBlocks,
     ctcp_blocked_until |-> NoBlocks,
     nick_blocked_channels |-> NoBlocks,
     flood_attempts_today |-> 0,
     total_messages_blocked |-> 0,
     last_reset_date |-> 0,
     in_protection_mode |-> FALSE,
     protection_started |-> 0,
     last_protection_notice |-> 0,
     blocked_since_notice |-> 0] @@ settings

ctcp_flood_init == [s \in Servers |-> [ctcp_timestamps |-> <<>>, ctcp_count |-> 0]]

NeverInserted ==
    [msg |-> NoBlocks, rule |-> NoBlocks, ctcp |-> NoBlocks, nick |-> NoBlocks]

\* the events of one run: the inputs the host delivers and the bounds on the
\* clock, the windows and the counters
Inputs(texts, addresses, servers, channels) ==
    [texts |-> texts, addresses |-> addresses, servers |-> servers,
     channels |-> channels]

Limits(max_time, max_window, max_blocked, max_attempts, max_ctcp, max_changes) ==
    [max_time |-> max_time, max_window |-> max_window, max_blocked |-> max_blocked,
     max_attempts |-> max_attempts, max_ctcp |-> max_ctcp,
     max_changes |-> max_changes]

\* a run that ends before midnight
Host(inputs, limits) == inputs @@ limits @@ [midnight |-> limits.max_time + 1]

\* a run in which the date changes at the given time
Midnight(h, t) == [midnight |-> t] @@ h

Case(settings, h) == [settings |-> settings, host |-> h]

InitWith(cases) ==
    /\ now = 0
    /\ enabled = TRUE
    /\ \E c \in cases :
          /\ host = c.host
          /\ floodnet = irc_anti_floodnet_init(c.settings)
    /\ ctcp_tracking = ctcp_flood_init
    /\ printed = <<>>
    /\ ev = [op |-> "init", path |-> "init", stopped |-> FALSE, met |-> FALSE]
    /\ inserted_at = NeverInserted
    /\ fired = FALSE

----------------------------------------------------------------------------
(* History: the time at which each stored entry was last written, and for a
   message text the rule ("tilde" or "duplicate") that wrote it *)

Stamp(old, new, ins, t) ==
    [k \in DOMAIN new |->
        IF k \in DOMAIN new /\ (k \notin DOMAIN old \/ old[k] # new[k]) THEN t
        ELSE ins[k]]

Stamped(f, g, t, path) ==
    [msg  |-> Stamp(f.blocked_patterns, g.blocked_patterns, inserted_at.msg, t),
     rule |-> Stamp(f.blocked_patterns, g.blocked_patterns, inserted_at.rule,
                    IF path = "tilde" THEN "tilde" ELSE "duplicate"),
     ctcp |-> Stamp(f.ctcp_blocked_until, g.ctcp_blocked_until, inserted_at.ctcp, t),
     nick |-> Stamp(f.nick_blocked_channels, g.nick_blocked_channels,
                    inserted_at.nick, t)]

Bounded(f, tracking) ==
    /\ f.message_count <= host.max_window
    /\ f.total_messages_blocked <= host.max_blocked
    /\ f.blocked_since_notice <= host.max_blocked
    /\ f.flood_attempts_today <= host.max_attempts
    /\ \A s \in Servers : tracking[s].ctcp_count <= host.max_ctcp
    /\ \A c \in ChannelNames : f.channel_nick_changes[c].change_count <= host.max_changes

\* one handler run: o is its outcome
Run(op, o, tracking) ==
    /\ Bounded(o.f, tracking)
    /\ floodnet' = o.f
    /\ ctcp_tracking' = tracking
    /\ printed' = o.out
    /\ ev' = [op |-> op, path |-> o.path, stopped |-> o.stopped, met |-> o.met]
    /\ inserted_at' = Stamped(floodnet, o.f, now, o.path)
    /\ fired' = IF o.met THEN TRUE ELSE IF o.exited THEN FALSE ELSE fired
    /\ UNCHANGED <<now, enabled, host>>

----------------------------------------------------------------------------
(* Actions: the signal handlers, the command and the host *)

\* "event privmsg" addressed to our nick
sig_event_privmsg ==
    \E nick \in Nicks, address \in host.addresses, text \in host.texts :
        \E most_common \in MostCommonChoices(floodnet, enabled, nick, address, text, now) :
            Run("privmsg",
                check_message_flood(floodnet, enabled, nick, address, text, now,
                                    most_common),
                ctcp_tracking)

\* "ctcp msg ..." and "default ctcp msg"
sig_ctcp ==
    \E server \in host.servers :
        LET o == check_ctcp_flood(floodnet, ctcp_tracking, enabled, server, now)
        IN  Run("ctcp", o, o.tracking)

\* "nicklist changed", Phase A
NicklistChanged ==
    \E channel \in host.channels :
        Run("nicklist changed", sig_nicklist_changed(floodnet, enabled, channel, now),
            ctcp_tracking)

\* "message nick", Phase B
MessageNick ==
    \E server \in host.servers :
        \E present \in SUBSET Range(ServerChannels[server]) :
            Run("message nick", sig_message_nick(floodnet, enabled, server, present, now),
                ctcp_tracking)

\* /FLOODNET STATUS runs the daily reset and the sweep
cmd_floodnet_status ==
    /\ \E shared \in BOOLEAN :
          floodnet' = cleanup_expired_blocks(
                          check_daily_reset(floodnet, now, host.midnight, shared), now)
    /\ floodnet' # floodnet
    /\ printed' = <<>>
    /\ ev' = [op |-> "status", path |-> "sweep", stopped |-> FALSE, met |-> FALSE,
              counts |-> status_counts(floodnet')]
    /\ UNCHANGED <<now, enabled, host, ctcp_tracking, inserted_at, fired>>

\* /FLOODNET DETAILS runs the daily reset and the sweep, then lists the blocks
cmd_floodnet_details ==
    /\ \E shared \in BOOLEAN :
          floodnet' = cleanup_expired_blocks(
                          check_daily_reset(floodnet, now, host.midnight, shared), now)
    /\ printed' = <<>>
    /\ ev' = [op |-> "details", path |-> "details", stopped |-> FALSE, met |-> FALSE,
              lines |-> details_lines(floodnet', now)]
    /\ UNCHANGED <<now, enabled, host, ctcp_tracking, inserted_at, fired>>

\* /FLOODNET RESET
cmd_floodnet_reset ==
    /\ floodnet' = reset_statistics(floodnet, now)
    /\ printed' = <<>>
    /\ ev' = [op |-> "reset", path |-> "reset", stopped |-> FALSE, met |-> FALSE]
    /\ UNCHANGED <<now, enabled, host, ctcp_tracking, inserted_at, fired>>

\* /FLOODNET HELP prints the usage text
cmd_floodnet_help ==
    /\ printed' = <<>>
    /\ ev' = [op |-> "help", path |-> "help", stopped |-> FALSE, met |-> FALSE]
    /\ UNCHANGED <<now, enabled, host, floodnet, ctcp_tracking, inserted_at, fired>>

\* /SET anti_floodnet_enabled
SetEnabled ==
    /\ enabled' = ~enabled
    /\ printed' = <<>>
    /\ ev' = [op |-> "set", path |-> "set", stopped |-> FALSE, met |-> FALSE]
    /\ UNCHANGED <<now, host, floodnet, ctcp_tracking, inserted_at, fired>>

\* a second passes
Tick ==
    /\ now < host.max_time
    /\ now' = now + 1
    /\ printed' = <<>>
    /\ ev' = [op |-> "tick", path |-> "tick", stopped |-> FALSE, met |-> FALSE]
    /\ UNCHANGED <<enabled, host, floodnet, ctcp_tracking, inserted_at, fired>>

----------------------------------------------------------------------------
(* Specifications *)

MaxTime == 3
MaxWindow == 2
MaxBlocked == 2
MaxAttempts == 1
MaxCtcp == 1
MaxChanges == 1

\* every handler; the tilde threshold is 2, one CTCP request or one nick
\* change enters protection mode
AllEvents ==
    Host(Inputs({"x"}, {Unverified, Verified}, {"s1"}, {"#a"}),
         Limits(MaxTime, MaxWindow, MaxBlocked, MaxAttempts, MaxCtcp, MaxChanges))

\* private messages alone, with two texts
TwoTexts ==
    Host(Inputs({"x", "y"}, {Unverified, Verified}, {}, {}),
         Limits(MaxTime, MaxWindow, MaxBlocked, MaxAttempts, MaxCtcp, MaxChanges))

Init ==
    InitWith({Case(Settings(2, 2, 1, 1, 1, 1, 1, 2), AllEvents),
              Case(Settings(2, 2, 1, 1, 1, 1, 1, 2), TwoTexts)})

Next ==
    \/ sig_event_privmsg
    \/ sig_ctcp
    \/ NicklistChanged
    \/ MessageNick
    \/ cmd_floodnet_status
    \/ SetEnabled
    \/ Tick

Spec == Init /\ [][Next]_vars

----------------------------------------------------------------------------
(* Claims *)

Count(x, seq) == Cardinality({i \in 1..Len(seq) : seq[i] = x})

\* the auto-exit condition of the controller, in the claim's words
AutoExitDue(f, t) ==
    /\ f.in_protection_mode
    /\ f.message_count = 0
    /\ t - f.protection_started > f.block_duration + f.time_window

\* C1: a CheckStatus call made while protection mode is Active with an empty
\* message window and more than block_duration + time_window elapsed since
\* activation leaves it Inactive and prints exactly one "Protection ended"
\* notice; a second call right after prints nothing and changes nothing.  At
\* exactly block_duration + time_window, or with a non-empty window, the call
\* does not exit.
C1_AutoExit ==
    LET st    == check_protection_status(floodnet, <<>>, now)
        again == check_protection_status(st[1], <<>>, now)
    IN  /\ AutoExitDue(floodnet, now) =>
              /\ ~st[1].in_protection_mode
              /\ Count("ended", st[2]) = 1
              /\ again = <<st[1], <<>>>>
        /\ (floodnet.in_protection_mode /\ ~AutoExitDue(floodnet, now)) =>
              /\ st[1].in_protection_mode
              /\ Count("ended", st[2]) = 0

\* a private-message evaluation whose CheckStatus call ended protection mode
C1_Witness ==
    /\ ev.op = "privmsg"
    /\ Count("ended", printed) = 1
    /\ ~floodnet.in_protection_mode

----------------------------------------------------------------------------
(* Private messages only, over six seconds *)

MaxTimeMsg == 5
MaxWindowMsg == 2
MaxBlockedMsg == 2
MaxAttemptsMsg == 1

MessagesOnly ==
    Host(Inputs({"x", "y"}, {Unverified, Verified}, {}, {}),
         Limits(MaxTimeMsg, MaxWindowMsg, MaxBlockedMsg, MaxAttemptsMsg, 0, 0))

InitMsg == InitWith({Case(Settings(2, 2, 1, 1, 1, 1, 1, 2), MessagesOnly)})

NextMsg ==
    \/ sig_event_privmsg
    \/ Tick

SpecMsg == InitMsg /\ [][NextMsg]_vars

\* every record of the message window is older than time_window
AllStale(f, t) ==
    \A i \in 1..Len(f.message_window) : f.message_window[i].timestamp < t - f.time_window

\* C10: the window CheckStatus reads during a private-message evaluation holds
\* no record older than time_window, so an evaluation made with only such
\* records stored and more than block_duration + time_window elapsed since
\* activation, and in which no threshold is met, leaves protection mode
\* Inactive.
C10_StatusReadsPurgedWindow ==
    [][(/\ ev'.op = "privmsg"
        /\ enabled
        /\ floodnet.in_protection_mode
        /\ AllStale(floodnet, now)
        /\ now - floodnet.protection_started
              > floodnet.block_duration + floodnet.time_window
        /\ ~ev'.met)
       => ~floodnet'.in_protection_mode]_vars

\* the newest stored message was itself evaluated after the auto-exit
\* deadline, and this evaluation comes more than time_window after it
LateAfterLate(f, t) ==
    /\ f.message_window # <<>>
    /\ Head(f.message_window).timestamp
          > f.protection_started + f.block_duration + f.time_window
    /\ t > Head(f.message_window).timestamp + f.time_window

\* C2, as a finite run can refute it: when private messages keep being
\* evaluated after protection_started + block_duration + time_window with no
\* threshold met, protection mode ends; at the latest the evaluation that
\* follows an earlier late, Allowed one by more than time_window leaves it
\* Inactive.
C2_LateMessagesEndProtection ==
    [][(/\ ev'.op = "privmsg"
        /\ enabled
        /\ floodnet.in_protection_mode
        /\ LateAfterLate(floodnet, now)
        /\ ~ev'.met)
       => ~floodnet'.in_protection_mode]_vars

\* the times at which a lookup can still be made
LookupTimes == now..(host.max_time + floodnet.block_duration + 1)

\* C3: for each of the three blocklists, an entry written at t0 (and not
\* written again since) is answered blocked by every lookup at t < t0 +
\* block_duration and not-blocked by every lookup at t >= t0 + block_duration,
\* and stays not-blocked once such a lookup has removed it.
C3_ExpiryRoundTrip ==
    LET D == floodnet.block_duration
    IN  /\ \A k \in DOMAIN floodnet.blocked_patterns : \A t \in LookupTimes :
              /\ is_message_blocked(floodnet, k, t) <=> t < inserted_at.msg[k] + D
              /\ \A u \in LookupTimes :
                    u >= t => ~is_message_blocked(
                                  is_message_blocked_remove(floodnet, k, t), k, u)
                              \/ t < inserted_at.msg[k] + D
        /\ \A k \in DOMAIN floodnet.ctcp_blocked_until : \A t \in LookupTimes :
              /\ is_ctcp_blocked(floodnet, k, t) <=> t < inserted_at.ctcp[k] + D
              /\ \A u \in LookupTimes :
                    u >= t => ~is_ctcp_blocked(
                                  is_ctcp_blocked_remove(floodnet, k, t), k, u)
                              \/ t < inserted_at.ctcp[k] + D
        /\ \A k \in DOMAIN floodnet.nick_blocked_channels : \A t \in LookupTimes :
              /\ is_nick_channel_blocked(floodnet, k, t) <=> t < inserted_at.nick[k] + D
              /\ \A u \in LookupTimes :
                    u >= t => ~is_nick_channel_blocked(
                                  is_nick_channel_blocked_remove(floodnet, k, t), k, u)
                              \/ t < inserted_at.nick[k] + D

\* a message-text block written block_duration ago is still stored, and the
\* lookup made now answers not-blocked
C3_Witness ==
    \E k \in DOMAIN floodnet.blocked_patterns :
        /\ now = inserted_at.msg[k] + floodnet.block_duration
        /\ ~is_message_blocked(floodnet, k, now)
        /\ k \notin DOMAIN is_message_blocked_remove(floodnet, k, now).blocked_patterns

----------------------------------------------------------------------------
(* Private messages under three configurations: small thresholds, and a tilde
   threshold above the Pattern B sample floor with duplicate_threshold 1 and 2 *)

MaxTimeTilde == 2
MaxWindowTilde == 3
MaxWindowScenario == 5
MaxBlockedTilde == 2
MaxAttemptsTilde == 2

TildeEvents ==
    Host(Inputs({"x", "y"}, {Unverified, Verified}, {}, {}),
         Limits(MaxTimeTilde, MaxWindowTilde, MaxBlockedTilde, MaxAttemptsTilde, 0, 0))

ScenarioEvents ==
    Host(Inputs({"a", "b", "c", "d", "e", "f"}, {Unverified}, {}, {}),
         Limits(0, MaxWindowScenario, MaxBlockedTilde, MaxAttemptsTilde, 0, 0))

InitTilde ==
    InitWith({Case(Settings(2, 2, 1, 1, 1, 1, 1, 2), TildeEvents),
              Case(Settings(6, 1, 1, 1, 1, 1, 1, 2), ScenarioEvents),
              Case(Settings(6, 2, 1, 1, 1, 1, 1, 2), ScenarioEvents)})

NextTilde == sig_event_privmsg \/ Tick

SpecTilde == InitTilde /\ [][NextTilde]_vars

\* the window holds tilde_threshold records, tilde_threshold of them flagged
TildeMet(f) ==
    f.message_count >= f.tilde_threshold /\ count_tilde_users(f) >= f.tilde_threshold

\* the private messages <<nick, address, text>> that can arrive in the current
\* state, each with a text find_most_common_message can return for it
Calls(addresses, texts) ==
    UNION {{<<q[1], q[2], q[3], most_common>> :
               most_common \in MostCommonChoices(floodnet, enabled, q[1], q[2], q[3], now)} :
           q \in Nicks \X addresses \X texts}

Eval(r) == check_message_flood(floodnet, enabled, r[1], r[2], r[3], now, r[4])

Evaluations(addresses, texts) == {Eval(r) : r \in Calls(addresses, texts)}

\* every evaluation that adds its message and finds the tilde condition met
\* returns Block, leaves protection Active, every window text blocked and
\* unexpired, and the blocked counter at least one higher
TildeRuleBlocks ==
    \A o \in Evaluations(host.addresses, host.texts) :
        (o.path \notin {"disabled", "protection"} /\ TildeMet(o.f))
        => /\ o.stopped
           /\ o.f.in_protection_mode
           /\ \A i \in 1..Len(o.f.message_window) :
                 is_message_blocked(o.f, o.f.message_window[i].text, now)
           /\ o.f.total_messages_blocked >= floodnet.total_messages_blocked + 1

WindowTexts(f) == {f.message_window[i].text : i \in 1..Len(f.message_window)}

\* the engine after k < tilde_threshold messages of the scenario: Inactive,
\* nothing blocked, k unverified-ident records in the window, texts pairwise
\* distinct, none older than time_window
InScenario(f, t) ==
    /\ ~f.in_protection_mode
    /\ f.blocked_patterns = NoBlocks
    /\ f.message_count = Len(f.message_window)
    /\ f.message_count < f.tilde_threshold
    /\ Cardinality(WindowTexts(f)) = Len(f.message_window)
    /\ \A i \in 1..Len(f.message_window) :
          /\ f.message_window[i].has_tilde
          /\ f.message_window[i].timestamp >= t - f.time_window

\* the next message of the scenario is blocked exactly when it is the
\* tilde_threshold-th
ScenarioBlocksLast ==
    (enabled /\ InScenario(floodnet, now))
    => \A o \in Evaluations({a \in host.addresses : check_tilde_ident(<<"n", "!">> \o a)},
                            host.texts \ WindowTexts(floodnet)) :
          o.stopped <=> floodnet.message_count + 1 = floodnet.tilde_threshold

\* C4 as stated: the tilde rule blocks, and tilde_threshold messages from
\* unverified-ident senders with pairwise distinct texts within time_window,
\* from an empty Inactive engine, give Allow for all but the last and Block
\* for the last, under every configuration.
C4_TildeScenarioAlways == TildeRuleBlocks /\ ScenarioBlocksLast

\* C4, amended: the tilde rule blocks as stated; the scenario holds when
\* Pattern B cannot fire before the tilde threshold is reached, that is when
\* duplicate_threshold >= 2 or tilde_threshold <= 5.
C4_TildeRule ==
    /\ TildeRuleBlocks
    /\ (floodnet.duplicate_threshold >= 2
        \/ floodnet.tilde_threshold <= DUPLICATE_MIN_MESSAGES) => ScenarioBlocksLast

\* the tilde rule has just fired on the tilde_threshold-th message of the
\* scenario: all records flagged, texts distinct, Block returned, Active
C4_Witness ==
    /\ ev.op = "privmsg" /\ ev.path = "tilde" /\ ev.stopped
    /\ floodnet.in_protection_mode
    /\ floodnet.message_count = floodnet.tilde_threshold
    /\ count_tilde_users(floodnet) = floodnet.tilde_threshold
    /\ Cardinality(WindowTexts(floodnet)) = floodnet.message_count
    /\ \A x \in WindowTexts(floodnet) : is_message_blocked(floodnet, x, now)
    /\ floodnet.total_messages_blocked = 1

----------------------------------------------------------------------------
(* Private messages with a window that reaches the Pattern B sample floor:
   both rules in reach, and duplicate_threshold 1 with the tilde rule out of
   reach *)

MaxTimeDup == 2
MaxWindowDup == 5
MaxBlockedDup == 3
MaxAttemptsDup == 2

BothRules ==
    Host(Inputs({"x", "u"}, {Unverified, Verified}, {}, {}),
         Limits(MaxTimeDup, MaxWindowDup, MaxBlockedDup, MaxAttemptsDup, 0, 0))

\* six texts from verified-ident senders within one second, up to the Pattern B
\* sample floor
VerifiedOnly ==
    Host(Inputs({"a", "b", "c", "d", "e", "f"}, {Verified}, {}, {}),
         Limits(0, DUPLICATE_MIN_MESSAGES, MaxBlockedDup, MaxAttemptsDup, 0, 0))

InitDup ==
    InitWith({Case(Settings(2, 2, 1, 1, 3, 1, 1, 2), BothRules),
              Case(Settings(6, 1, 1, 1, 1, 1, 1, 2), VerifiedOnly)})

NextDup == sig_event_privmsg \/ Tick

SpecDup == InitDup /\ [][NextDup]_vars

\* an evaluation that added its message, did not fire the tilde rule, and left
\* at least 5 records whose most frequent text occurs duplicate_threshold times
DuplicateMet(o) ==
    /\ o.path \notin {"disabled", "protection", "tilde"}
    /\ o.f.message_count >= DUPLICATE_MIN_MESSAGES
    /\ most_common_count(o.f) >= o.f.duplicate_threshold

\* then the text X handed on is a most frequent one, X is blocked afterwards
\* (with expiry now + block_duration and protection Active if it was not
\* blocked before), and Block is returned exactly when the current text is X
DuplicateRuleBlocks ==
    \A r \in Calls(host.addresses, host.texts) :
        LET o == Eval(r)
            X == r[4]
        IN  DuplicateMet(o)
            => /\ freq(o.f, X) = most_common_count(o.f)
               /\ is_message_blocked(o.f, X, now)
               /\ ~is_message_blocked(floodnet, X, now)
                  => /\ o.f.blocked_patterns[X] = now + floodnet.block_duration
                     /\ o.f.in_protection_mode
               /\ o.stopped <=> r[3] = X

\* the texts Pattern B blocked since protection was last entered, still blocked
DuplicateBlocked ==
    {X \in DOMAIN floodnet.blocked_patterns :
        /\ floodnet.in_protection_mode
        /\ is_message_blocked(floodnet, X, now)
        /\ inserted_at.rule[X] = "duplicate"
        /\ floodnet.protection_started <= inserted_at.msg[X]}

\* while protection stays Active, a message with such a text is blocked
RepeatBlocked ==
    \A r \in Calls(host.addresses, DuplicateBlocked) :
        LET o == Eval(r) IN (enabled /\ ~o.exited) => o.stopped

\* a verified-ident message whose text is neither in the window nor blocked
UniqueCalls ==
    Calls({a \in host.addresses : ~check_tilde_ident(<<"n", "!">> \o a)},
          {U \in host.texts : /\ U \notin WindowTexts(floodnet)
                              /\ ~is_message_blocked(floodnet, U, now)})

\* while protection stays Active and such a text is blocked, a verified-ident
\* message with a unique text is allowed
UniqueAllowed ==
    DuplicateBlocked # {}
    => \A r \in UniqueCalls : LET o == Eval(r) IN (enabled /\ ~o.exited) => ~o.stopped

\* with fewer than 5 records Pattern B does nothing
BelowFloorSilent ==
    \A r \in Calls(host.addresses, host.texts) :
        LET o == Eval(r)
        IN  (o.path \notin {"disabled", "protection"}
             /\ o.f.message_count < DUPLICATE_MIN_MESSAGES)
            => /\ o.path \in {"tilde", "allow"}
               /\ o.met => o.path = "tilde"

\* C5 as stated: the duplicate rule blocks the most frequent text X, later
\* messages with text X are blocked and a later verified-ident message with a
\* unique text is allowed while protection stays Active and X is blocked, and
\* below 5 records the rule never fires; under every configuration.
C5_UniqueAlwaysAllowed ==
    DuplicateRuleBlocks /\ RepeatBlocked /\ UniqueAllowed /\ BelowFloorSilent

\* C5, amended: as stated, the allowance of a later unique text holding when
\* duplicate_threshold >= 2.
C5_DuplicateRule ==
    /\ DuplicateRuleBlocks
    /\ RepeatBlocked
    /\ floodnet.duplicate_threshold >= 2 => UniqueAllowed
    /\ BelowFloorSilent

\* Pattern B has blocked X and protection has been Active since; a later
\* verified-ident message with a unique text has just been allowed
C5_Witness ==
    /\ ev.op = "privmsg" /\ ev.path = "allow" /\ ~ev.stopped
    /\ floodnet.duplicate_threshold >= 2
    /\ DuplicateBlocked # {}
    /\ \A X \in DuplicateBlocked : inserted_at.msg[X] < now
    /\ ~Head(floodnet.message_window).has_tilde
    /\ Head(floodnet.message_window).text \notin DuplicateBlocked
    /\ freq(floodnet, Head(floodnet.message_window).text) = 1

----------------------------------------------------------------------------
(* CTCP requests on two connections under three configurations: threshold 2
   with block_duration above time_window, threshold 1, and threshold 2 with
   block_duration equal to time_window *)

MaxTimeCtcp == 4
MaxCountCtcp == 3
MaxBlockedCtcp == 3
MaxAttemptsCtcp == 2

CtcpEvents ==
    Host(Inputs({}, {}, {"s1", "s2"}, {}),
         Limits(MaxTimeCtcp, 0, MaxBlockedCtcp, MaxAttemptsCtcp, MaxCountCtcp, 0))

InitCtcp ==
    InitWith({Case(Settings(2, 2, 2, 1, 2, 1, 1, 2), CtcpEvents),
              Case(Settings(2, 2, 1, 1, 1, 1, 1, 2), CtcpEvents),
              Case(Settings(2, 2, 2, 1, 1, 1, 1, 2), CtcpEvents)})

NextCtcp == sig_ctcp \/ Tick

SpecCtcp == InitCtcp /\ [][NextCtcp]_vars

\* the evaluation of one more CTCP request on a connection
Request(server) == check_ctcp_flood(floodnet, ctcp_tracking, enabled, server, now)

\* the requests recorded for a connection that lie within time_window of now
Recent(server) ==
    LET stamps == ctcp_tracking[server].ctcp_timestamps
    IN  Cardinality({i \in 1..Len(stamps) : stamps[i] >= now - floodnet.time_window})

\* a request on a connection that is not blocked, making ctcp_threshold
\* requests within time_window, returns Block, enters protection and blocks
\* the connection until now + block_duration
ThresholdRequestBlocked ==
    \A server \in host.servers :
        (/\ enabled
         /\ ~is_ctcp_blocked(floodnet, server, now)
         /\ Recent(server) + 1 >= floodnet.ctcp_threshold)
        => /\ Request(server).stopped
           /\ Request(server).f.in_protection_mode
           /\ server \in DOMAIN Request(server).f.ctcp_blocked_until
           /\ Request(server).f.ctcp_blocked_until[server] = now + floodnet.block_duration

\* the connections blocked at a time t0 that no request has looked up since
\* t0 + block_duration
Stored == DOMAIN floodnet.ctcp_blocked_until \cap host.servers

\* a request before t0 + block_duration returns Block
BlockedBeforeExpiry ==
    \A server \in Stored :
        (enabled /\ now < inserted_at.ctcp[server] + floodnet.block_duration)
        => Request(server).stopped

\* the first request at or after t0 + block_duration returns Allow
AllowedAtExpiry ==
    \A server \in Stored :
        (enabled /\ now >= inserted_at.ctcp[server] + floodnet.block_duration)
        => ~Request(server).stopped

\* the first request at or after t0 + block_duration is judged as a request on
\* an unblocked connection
JudgedAfreshAtExpiry ==
    \A server \in Stored :
        (enabled /\ now >= inserted_at.ctcp[server] + floodnet.block_duration)
        => /\ Request(server).stopped <=> Recent(server) + 1 >= floodnet.ctcp_threshold
           /\ (/\ floodnet.ctcp_threshold >= 2
               /\ floodnet.block_duration > floodnet.time_window)
              => ~Request(server).stopped

\* C6 as stated: for every configuration the request reaching ctcp_threshold
\* within time_window at t0 returns Block and enters protection, every later
\* request before t0 + block_duration returns Block, and the first request at
\* or after t0 + block_duration returns Allow.
C6_AllowAtExpiryAlways ==
    ThresholdRequestBlocked /\ BlockedBeforeExpiry /\ AllowedAtExpiry

\* C6, amended: the first request at or after t0 + block_duration returns
\* Block exactly when it again makes ctcp_threshold requests within
\* time_window, and so returns Allow when ctcp_threshold >= 2 and
\* block_duration > time_window; the rest as stated.
C6_CtcpScenario ==
    ThresholdRequestBlocked /\ BlockedBeforeExpiry /\ JudgedAfreshAtExpiry

\* on connection s1 alone: the threshold was reached, a later request was
\* blocked, and a request after the expiry has just been allowed
C6_Witness ==
    /\ ev.op = "ctcp" /\ ev.path = "allow"
    /\ floodnet.ctcp_threshold >= 2
    /\ floodnet.block_duration > floodnet.time_window
    /\ floodnet.flood_attempts_today = 1
    /\ floodnet.total_messages_blocked >= 2
    /\ floodnet.ctcp_blocked_until = NoBlocks
    /\ ctcp_tracking["s2"].ctcp_count = 0
    /\ ctcp_tracking["s1"].ctcp_timestamps = <<now>>

----------------------------------------------------------------------------
(* Nick changes on two channels, announced on two connections *)

MaxTimeNick == 3
MaxChangesNick == 2
MaxBlockedNick == 2
MaxAttemptsNick == 2

NickEvents ==
    Host(Inputs({}, {}, {"s1", "s2"}, {"#a", "#b"}),
         Limits(MaxTimeNick, 0, MaxBlockedNick, MaxAttemptsNick, 0, MaxChangesNick))

InitNick == InitWith({Case(Settings(2, 2, 1, 2, 2, 1, 1, 2), NickEvents)})

NextNick == NicklistChanged \/ MessageNick \/ Tick

SpecNick == InitNick /\ [][NextNick]_vars

\* the nick changes recorded for a channel within nickchange_window of now
RecentChanges(channel) ==
    LET changes == floodnet.channel_nick_changes[channel].nick_changes
    IN  Cardinality({i \in 1..Len(changes) :
                        changes[i].timestamp >= now - floodnet.nickchange_window})

\* Phase A on a channel that is not blocked, making nickchange_threshold
\* changes within nickchange_window, blocks the channel and leaves protection
\* Active
ThresholdChangeBlocks ==
    \A channel \in host.channels :
        LET o == sig_nicklist_changed(floodnet, enabled, channel, now)
        IN  (/\ enabled
             /\ ~is_nick_channel_blocked(floodnet, channel, now)
             /\ RecentChanges(channel) + 1 >= floodnet.nickchange_threshold)
            => /\ is_nick_channel_blocked(o.f, channel, now)
               /\ o.f.in_protection_mode

\* the announcements that can arrive: a connection and the set of its channels
\* on which the new nick is present
Announcements ==
    {q \in host.servers \X SUBSET ChannelNames : q[2] \subseteq Range(ServerChannels[q[1]])}

PhaseB(q) == sig_message_nick(floodnet, enabled, q[1], q[2], now)

BlockedNow(channel) == is_nick_channel_blocked(floodnet, channel, now)

\* Phase B for a nick present on a blocked channel returns Block and sets that
\* channel's expiry to now + block_duration
AnnouncementExtendsEach ==
    \A q \in Announcements : \A channel \in q[2] :
        (enabled /\ BlockedNow(channel))
        => /\ PhaseB(q).stopped
           /\ PhaseB(q).f.nick_blocked_channels[channel] = now + floodnet.block_duration

\* the first channel of the connection, in server->channels order, that is
\* blocked and holds the new nick
FirstBlocked(q) ==
    LET channels == ServerChannels[q[1]]
        hits == {i \in 1..Len(channels) : channels[i] \in q[2] /\ BlockedNow(channels[i])}
    IN  channels[CHOOSE i \in hits : \A j \in hits : i <= j]

\* Phase B for a nick present on a blocked channel returns Block and sets to
\* now + block_duration the expiry of the first such channel only
AnnouncementExtendsFirst ==
    \A q \in Announcements :
        (enabled /\ \E channel \in q[2] : BlockedNow(channel))
        => /\ PhaseB(q).stopped
           /\ PhaseB(q).f.nick_blocked_channels[FirstBlocked(q)]
                 = now + floodnet.block_duration
           /\ \A channel \in q[2] \ {FirstBlocked(q)} :
                 BlockedNow(channel)
                 => PhaseB(q).f.nick_blocked_channels[channel]
                       = floodnet.nick_blocked_channels[channel]

\* Phase B for a nick present on no blocked channel returns Allow and changes
\* no counter
UnrelatedAllowed ==
    \A q \in Announcements :
        (enabled /\ \A channel \in q[2] : ~BlockedNow(channel))
        => /\ ~PhaseB(q).stopped
           /\ PhaseB(q).f.total_messages_blocked = floodnet.total_messages_blocked
           /\ PhaseB(q).f.blocked_since_notice = floodnet.blocked_since_notice
           /\ PhaseB(q).f.flood_attempts_today = floodnet.flood_attempts_today

----------------------------------------------------------------------------
(* Private messages with one text over a clock long enough for protection to
   end while a later block of the text is still running *)

MaxTimeReentry == 5
MaxWindowReentry == 5
MaxBlockedReentry == 4
MaxAttemptsReentry == 2

ReentryEvents ==
    Host(Inputs({"x"}, {Unverified, Verified}, {}, {}),
         Limits(MaxTimeReentry, MaxWindowReentry, MaxBlockedReentry,
                MaxAttemptsReentry, 0, 0))

InitReentry == InitWith({Case(Settings(1, 2, 1, 1, 3, 1, 1, 2), ReentryEvents)})

NextReentry == sig_event_privmsg \/ Tick

SpecReentry == InitReentry /\ [][NextReentry]_vars

\* C8: protection is Active exactly when a threshold condition (tilde,
\* duplicate-text, CTCP or nick-change) was met in some evaluation since the
\* last exit, or since start; the initial state is Inactive, and an evaluation
\* in which a threshold condition is met leaves protection Active.
C8_ActiveIffFired ==
    /\ floodnet.in_protection_mode <=> fired
    /\ ev.op = "init" => ~floodnet.in_protection_mode
    /\ ev.met => floodnet.in_protection_mode

----------------------------------------------------------------------------
(* The windows the detectors compare *)

\* the stored message records within time_window of now
RecentMessages ==
    Cardinality({i \in 1..Len(floodnet.message_window) :
                    floodnet.message_window[i].timestamp >= now - floodnet.time_window})

\* C9: whenever a detector compares a window with its threshold at time now,
\* every record in that window has timestamp >= now - window, and the records
\* stored with timestamp >= now - window, those at exactly now - window
\* included, are all in it and counted together with the current one
\* (time_window for messages and CTCP, nickchange_window for nick changes).
C9_WindowBoundAtTests ==
    /\ \A r \in Calls(host.addresses, host.texts) :
          LET o == Eval(r)
          IN  o.path \in {"tilde", "duplicate", "allow"}
              => /\ \A i \in 1..Len(o.f.message_window) :
                       o.f.message_window[i].timestamp >= now - floodnet.time_window
                 /\ Len(o.f.message_window) = RecentMessages + 1
                 /\ o.f.message_count = RecentMessages + 1
    /\ \A server \in host.servers :
          LET rec == Request(server).tracking[server]
          IN  Request(server).path \in {"threshold", "allow"}
              => /\ \A i \in 1..Len(rec.ctcp_timestamps) :
                       rec.ctcp_timestamps[i] >= now - floodnet.time_window
                 /\ Len(rec.ctcp_timestamps) = Recent(server) + 1
                 /\ rec.ctcp_count = Recent(server) + 1
    /\ \A channel \in host.channels :
          LET o   == sig_nicklist_changed(floodnet, enabled, channel, now)
              rec == o.f.channel_nick_changes[channel]
          IN  o.path \in {"threshold", "tracked"}
              => /\ \A i \in 1..Len(rec.nick_changes) :
                       rec.nick_changes[i].timestamp >= now - floodnet.nickchange_window
                 /\ Len(rec.nick_changes) = RecentChanges(channel) + 1
                 /\ rec.change_count = RecentChanges(channel) + 1

\* a message has just been compared in a window that still holds, and counts,
\* a record stored time_window seconds earlier
C9_Witness ==
    /\ ev.op = "privmsg" /\ ev.path = "allow"
    /\ floodnet.message_count = 2
    /\ floodnet.message_window[1].timestamp = now
    /\ floodnet.message_window[2].timestamp = now - floodnet.time_window

----------------------------------------------------------------------------
(* Counts and lists *)

----------------------------------------------------------------------------
(* The four inbound events with room for a second detector firing *)

MaxTimeEntry == 2
MaxWindowEntry == 2
MaxBlockedEntry == 3
MaxAttemptsEntry == 2
MaxCtcpEntry == 1
MaxChangesEntry == 1

EntryEvents ==
    Host(Inputs({"x"}, {Unverified, Verified}, {"s1"}, {"#a"}),
         Limits(MaxTimeEntry, MaxWindowEntry, MaxBlockedEntry, MaxAttemptsEntry,
                MaxCtcpEntry, MaxChangesEntry))

InitEntry == InitWith({Case(Settings(2, 2, 1, 1, 1, 1, 1, 2), EntryEvents)})

NextEntry == sig_event_privmsg \/ sig_ctcp \/ NicklistChanged \/ MessageNick \/ Tick

SpecEntry == InitEntry /\ [][NextEntry]_vars

\* the evaluations of one more inbound event of any of the four kinds
AnyEvaluation ==
    Evaluations(host.addresses, host.texts)
    \cup {[f |-> Request(server).f, out |-> Request(server).out,
           path |-> Request(server).path, stopped |-> Request(server).stopped,
           met |-> Request(server).met, exited |-> Request(server).exited] :
             server \in host.servers}
    \cup {sig_nicklist_changed(floodnet, enabled, channel, now) : channel \in host.channels}
    \cup {PhaseB(q) : q \in Announcements}

\* C12: while protection is Active, enter_protection_mode changes no state and
\* emits no notice; so an event that does not end protection leaves it Active
\* with protection_started unchanged and no activation notice, whatever
\* detector fires in it.
C12_IdempotentEntry ==
    floodnet.in_protection_mode
    => /\ \A t \in now..host.max_time :
             enter_protection_mode(floodnet, printed, t) = <<floodnet, printed>>
       /\ \A o \in AnyEvaluation :
             ~o.exited
             => /\ o.f.in_protection_mode
                /\ o.f.protection_started = floodnet.protection_started
                /\ Count("ACTIVATED", o.out) = 0

\* a detector has just fired in a protection period that began earlier
C12_Witness ==
    /\ ev.met
    /\ floodnet.in_protection_mode
    /\ floodnet.protection_started < now
    /\ floodnet.flood_attempts_today = 2
    /\ Count("ACTIVATED", printed) = 0

----------------------------------------------------------------------------
(* Every event and every command, in a run that crosses midnight *)

MaxTimeCmd == 3
MaxWindowCmd == 2
MaxBlockedCmd == 1
MaxAttemptsCmd == 1
MaxCtcpCmd == 1
MaxChangesCmd == 1
MidnightCmd == 2

CmdEvents ==
    Midnight(Host(Inputs({"x"}, {Unverified}, {"s1"}, {"#a"}),
                  Limits(MaxTimeCmd, MaxWindowCmd, MaxBlockedCmd, MaxAttemptsCmd,
                         MaxCtcpCmd, MaxChangesCmd)),
             MidnightCmd)

InitCmd == InitWith({Case(Settings(2, 2, 1, 1, 1, 1, 1, 2), CmdEvents)})

NextCmd ==
    \/ sig_event_privmsg
    \/ sig_ctcp
    \/ NicklistChanged
    \/ MessageNick
    \/ cmd_floodnet_status
    \/ cmd_floodnet_details
    \/ cmd_floodnet_reset
    \/ cmd_floodnet_help
    \/ Tick

SpecCmd == InitCmd /\ [][NextCmd]_vars

\* now and every later time up to one second past the auto-exit deadline of a
\* protection period entered at the end of the run
Later == now..(host.max_time + floodnet.block_duration + floodnet.time_window + 1)

\* the engine after one event or command other than a private message, at t
Quiet(t) ==
    {check_ctcp_flood(floodnet, ctcp_tracking, enabled, server, t).f :
         server \in host.servers}
    \cup {sig_nicklist_changed(floodnet, enabled, channel, t).f :
              channel \in host.channels}
    \cup {sig_message_nick(floodnet, enabled, q[1], q[2], t).f : q \in Announcements}
    \cup {cleanup_expired_blocks(check_daily_reset(floodnet, t, host.midnight, shared), t) :
              shared \in BOOLEAN}
    \cup {reset_statistics(floodnet, t), floodnet}

\* the outcomes of one private-message evaluation at t
Spoken(t) ==
    UNION {{check_message_flood(floodnet, enabled, nick, r[1], r[2], t, most_common) :
               most_common \in MostCommonChoices(floodnet, enabled, nick, r[1], r[2], t)} :
           nick \in Nicks, r \in host.addresses \X host.texts}

\* C13: while protection mode is Active, no CTCP evaluation, nick-change or
\* announcement event, sweep, or status, reset, details or help command makes
\* it Inactive, however late it happens; a private-message evaluation that
\* leaves it Inactive does so in its check_protection_status call.
C13_OnlyMessagesExit ==
    floodnet.in_protection_mode
    => \A t \in Later :
          /\ \A g \in Quiet(t) : g.in_protection_mode
          /\ \A o \in Spoken(t) :
                ~o.f.in_protection_mode
                => /\ o.exited
                   /\ ~check_protection_status(floodnet, <<>>, t)[1].in_protection_mode

\* protection mode is still Active past its auto-exit deadline, with an empty
\* window, after a details command
C13_Witness ==
    /\ ev.op = "details"
    /\ AutoExitDue(floodnet, now)
    /\ floodnet.flood_attempts_today > 0

----------------------------------------------------------------------------
(* Two keys for each blocklist: two texts, two servers, two channels *)

MaxTimeLookup == 2
MaxWindowLookup == 2
MaxBlockedLookup == 3
MaxAttemptsLookup == 3
MaxCtcpLookup == 1
MaxChangesLookup == 1

LookupEvents ==
    Host(Inputs({"x", "y"}, {Unverified}, {"s1", "s2"}, {"#a", "#b"}),
         Limits(MaxTimeLookup, MaxWindowLookup, MaxBlockedLookup, MaxAttemptsLookup,
                MaxCtcpLookup, MaxChangesLookup))

InitLookup == InitWith({Case(Settings(2, 2, 1, 1, 1, 1, 1, 2), LookupEvents)})

NextLookup == sig_event_privmsg \/ sig_ctcp \/ NicklistChanged \/ Tick

SpecLookup == InitLookup /\ [][NextLookup]_vars

\* map without the entry of key
Without(map, key) == [k \in DOMAIN map \ {key} |-> map[k]]

\* a lookup that answered blocked left f as it was; one that answered
\* not-blocked left g, which is f with the map named by field lacking key if
\* key was stored, and f itself if it was not
LazyExpiry(f, g, field, key, blocked) ==
    IF blocked THEN g = f /\ key \in DOMAIN f[field]
    ELSE IF key \in DOMAIN f[field]
    THEN g = [f EXCEPT ![field] = Without(f[field], key)]
    ELSE g = f

\* C14: for each of the three blocklists and every key, stored or not, a
\* lookup that answers blocked changes nothing, a lookup that answers
\* not-blocked for a stored key removes that key and nothing else, and a lookup
\* of a key that is not stored answers not-blocked and changes nothing.
C14_LazyExpiry ==
    \A t \in LookupTimes :
        /\ \A text \in host.texts \cup {"z"} :
              LazyExpiry(floodnet, is_message_blocked_remove(floodnet, text, t),
                         "blocked_patterns", text, is_message_blocked(floodnet, text, t))
        /\ \A server \in Servers :
              LazyExpiry(floodnet, is_ctcp_blocked_remove(floodnet, server, t),
                         "ctcp_blocked_until", server, is_ctcp_blocked(floodnet, server, t))
        /\ \A channel \in ChannelNames :
              LazyExpiry(floodnet, is_nick_channel_blocked_remove(floodnet, channel, t),
                         "nick_blocked_channels", channel,
                         is_nick_channel_blocked(floodnet, channel, t))

\* two texts are stored, and of the two stored servers the lookup made now
\* answers not-blocked for one and blocked for the other
C14_Witness ==
    /\ DOMAIN floodnet.blocked_patterns = {"x", "y"}
    /\ DOMAIN floodnet.ctcp_blocked_until = {"s1", "s2"}
    /\ ~is_ctcp_blocked(floodnet, "s1", now)
    /\ is_ctcp_blocked(floodnet, "s2", now)

----------------------------------------------------------------------------
(* The events and the status command, with two keys for each blocklist *)

MaxTimeSweep == 1
MaxWindowSweep == 2
MaxBlockedSweep == 2
MaxAttemptsSweep == 2
MaxCtcpSweep == 1
MaxChangesSweep == 1

SweepEvents ==
    Host(Inputs({"x", "y"}, {Unverified}, {"s1", "s2"}, {"#a", "#b"}),
         Limits(MaxTimeSweep, MaxWindowSweep, MaxBlockedSweep, MaxAttemptsSweep,
                MaxCtcpSweep, MaxChangesSweep))

InitSweep == InitWith({Case(Settings(2, 2, 1, 1, 1, 1, 1, 2), SweepEvents)})

NextSweep ==
    \/ sig_event_privmsg
    \/ sig_ctcp
    \/ NicklistChanged
    \/ MessageNick
    \/ cmd_floodnet_status
    \/ Tick

SpecSweep == InitSweep /\ [][NextSweep]_vars

\* the maps that hold some of the entries of map and every unexpired one
Swept(map, t) ==
    {[k \in (DOMAIN map \ gone) |-> map[k]] :
        gone \in SUBSET {k \in DOMAIN map : t >= map[k]}}

\* the engines that sweeps made up to time t can leave in place of f
SweptEngines(f, t) ==
    {[f EXCEPT !.blocked_patterns = m, !.ctcp_blocked_until = c,
               !.nick_blocked_channels = n] :
        m \in Swept(f.blocked_patterns, t) \cup {cleanup_expired_blocks(f, t).blocked_patterns},
        c \in Swept(f.ctcp_blocked_until, t) \cup {cleanup_expired_blocks(f, t).ctcp_blocked_until},
        n \in Swept(f.nick_blocked_channels, t)
               \cup {cleanup_expired_blocks(f, t).nick_blocked_channels}}

\* f with the three blocklists emptied
Core(f) ==
    [f EXCEPT !.blocked_patterns = NoBlocks, !.ctcp_blocked_until = NoBlocks,
              !.nick_blocked_channels = NoBlocks]

\* g is f less some entries expired at t
SweptOf(f, g, t) ==
    /\ Core(g) = Core(f)
    /\ g.blocked_patterns \in Swept(f.blocked_patterns, t)
    /\ g.ctcp_blocked_until \in Swept(f.ctcp_blocked_until, t)
    /\ g.nick_blocked_channels \in Swept(f.nick_blocked_channels, t)

\* outcome p of the swept engine against outcome o of the unswept one
SameOutcome(o, p, t) ==
    /\ p.path = o.path
    /\ p.stopped = o.stopped
    /\ p.out = o.out
    /\ p.met = o.met
    /\ p.exited = o.exited
    /\ SweptOf(o.f, p.f, t)

----------------------------------------------------------------------------
(* The protection-mode pre-check of check_message_flood *)

\* the identity check_tilde_ident is given for a sender
Userhost(nick, address) ==
    IF strchr(address, 1, "!") # 0 THEN address ELSE nick \o <<"!">> \o address

\* map g holds no entry that map f does not hold
NothingInserted(f, g) ==
    \A k \in DOMAIN g : k \in DOMAIN f /\ g[k] = f[k]

\* C16: in a private-message evaluation that finds protection mode Active
\* after check_protection_status, and the text under an unexpired block or the
\* sender with an unverified ident, the message is stopped,
\* total_messages_blocked and blocked_since_notice are each one more than
\* check_protection_status left them, the window is the purged window without
\* the message, no blocklist gains or rewrites an entry, and nothing else
\* that check_protection_status left is changed.
C16_PreCheckFrame ==
    \A nick \in Nicks, address \in host.addresses, text \in host.texts :
        LET st == check_protection_status(floodnet, <<>>, now)[1]
            purged == cleanup_old_messages(st, now)
        IN  enabled /\ st.in_protection_mode
            /\ (is_message_blocked(st, text, now)
                   \/ check_tilde_ident(Userhost(nick, address)))
            => \A most_common \in
                      MostCommonChoices(floodnet, enabled, nick, address, text, now) :
                  LET o == check_message_flood(floodnet, enabled, nick, address, text,
                                               now, most_common)
                  IN  /\ o.path = "protection"
                      /\ o.stopped
                      /\ o.f.total_messages_blocked = st.total_messages_blocked + 1
                      /\ o.f.blocked_since_notice = st.blocked_since_notice + 1
                      /\ o.f.message_window = purged.message_window
                      /\ o.f.message_count = purged.message_count
                      /\ NothingInserted(floodnet.blocked_patterns, o.f.blocked_patterns)
                      /\ o.f.ctcp_blocked_until = floodnet.ctcp_blocked_until
                      /\ o.f.nick_blocked_channels = floodnet.nick_blocked_channels
                      /\ Core([o.f EXCEPT !.total_messages_blocked = 0,
                                          !.blocked_since_notice = 0])
                            = Core([purged EXCEPT !.total_messages_blocked = 0,
                                                  !.blocked_since_notice = 0])

\* a message has just been stopped at the pre-check in a protection period
\* whose periodic notice was printed before; its predecessor is still in
\* the window
C16_Witness ==
    /\ ev.op = "privmsg"
    /\ ev.path = "protection"
    /\ floodnet.in_protection_mode
    /\ floodnet.last_protection_notice > floodnet.protection_started
    /\ floodnet.blocked_since_notice < floodnet.total_messages_blocked
    /\ floodnet.message_count > 0

----------------------------------------------------------------------------
(* Null and empty arguments *)

\* the null pointer handed as an address and as a text: values that are no
\* string of the run
NullAddress == <<"NULL">>
NullText == "NULL"

\* what "%s" prints for a null pointer
NullPrinted == <<"(null)">>

MaxTimeNull == 2
MaxWindowNull == 2
MaxBlockedNull == 2
MaxAttemptsNull == 1
MaxChangesNull == 1

NullEvents ==
    Host(Inputs({"x"}, {Unverified, Verified}, {}, {"#a"}),
         Limits(MaxTimeNull, MaxWindowNull, MaxBlockedNull, MaxAttemptsNull, 0,
                MaxChangesNull))

\* check_message_flood reads through a null pointer: strchr(address, '!') on
\* a null address, is_message_blocked on a null text in the pre-check or in
\* the Pattern A loop over the window, the frequency table of
\* find_most_common_message on a null text of the window
dereferences_null(f, on, nick, address, text, t) ==
    /\ on
    /\ \/ address = NullAddress
       \/ LET f2 == cleanup_old_messages(check_protection_status(f, <<>>, t)[1], t)
          IN  IF f2.in_protection_mode
              THEN text = NullText
              ELSE LET f3 == add_message_to_window(f2, Userhost(nick, address), text, t)
                   IN  /\ NullText \in WindowTexts(f3)
                       /\ \/ /\ f3.message_count >= f3.tilde_threshold
                             /\ count_tilde_users(f3) >= f3.tilde_threshold
                          \/ f3.message_count >= DUPLICATE_MIN_MESSAGES

\* the process has ended on a signal; nothing was written
crashed(f) == Outcome(f, <<>>, "crash", FALSE, FALSE, FALSE)

\* the outcomes of check_message_flood for arguments that may be null: a
\* read through a null pointer is undefined, the process ends or the read
\* yields an empty string and the call goes on
check_message_flood_outcomes(f, on, nick, address, text, t, most_common) ==
    LET read == IF address = NullAddress THEN NullPrinted ELSE address
    IN  IF dereferences_null(f, on, nick, address, text, t)
        THEN {crashed(f), check_message_flood(f, on, nick, read, text, t, most_common)}
        ELSE {check_message_flood(f, on, nick, address, text, t, most_common)}

\* sig_nicklist_changed with its null test; null stands for a null channel,
\* nick or oldnick
sig_nicklist_changed_checked(f, on, channel, null, t) ==
    IF ~on THEN Outcome(f, <<>>, "disabled", FALSE, FALSE, FALSE)
    ELSE IF null THEN Outcome(f, <<>>, "ignored", FALSE, FALSE, FALSE)
    ELSE sig_nicklist_changed(f, on, channel, t)

Alive == ev.path # "crash"

\* the senders and texts of a private message, null and empty ones included
Senders == (Nicks \cup {<<>>}) \X (host.addresses \cup {NullAddress, <<>>})

Texts == host.texts \cup {NullText}

Malformed(nick, address, text) ==
    nick = <<>> \/ address \in {NullAddress, <<>>} \/ text = NullText

\* "event privmsg" with any arguments
PrivmsgAnyArguments ==
    /\ Alive
    /\ \E q \in Senders, text \in Texts :
          \E most_common \in MostCommonChoices(floodnet, enabled, q[1], q[2], text, now) :
              \E o \in check_message_flood_outcomes(floodnet, enabled, q[1], q[2], text,
                                                    now, most_common) :
                  Run("privmsg", o, ctcp_tracking)

\* "nicklist changed" with any arguments
NicklistChangedAnyArguments ==
    /\ Alive
    /\ \E channel \in host.channels, null \in BOOLEAN :
          Run("nicklist changed",
              sig_nicklist_changed_checked(floodnet, enabled, channel, null, now),
              ctcp_tracking)

TickAlive == Alive /\ Tick

InitNull == InitWith({Case(Settings(2, 2, 1, 1, 1, 1, 1, 2), NullEvents)})

NextNull == PrivmsgAnyArguments \/ NicklistChangedAnyArguments \/ TickAlive

SpecNull == InitNull /\ [][NextNull]_vars

\* the windows, blocklists, counters and protection state of f and g agree
SameEngine(f, g) ==
    /\ g.message_window = f.message_window
    /\ g.message_count = f.message_count
    /\ g.channel_nick_changes = f.channel_nick_changes
    /\ g.blocked_patterns = f.blocked_patterns
    /\ g.ctcp_blocked_until = f.ctcp_blocked_until
    /\ g.nick_blocked_channels = f.nick_blocked_channels
    /\ g.flood_attempts_today = f.flood_attempts_today
    /\ g.total_messages_blocked = f.total_messages_blocked
    /\ g.blocked_since_notice = f.blocked_since_notice
    /\ g.in_protection_mode = f.in_protection_mode
    /\ g.protection_started = f.protection_started

\* C17: an evaluation with a null or empty nick, identity or channel argument,
\* or a null text, ends without a crash, lets the event through and leaves
\* every window, blocklist, counter and the protection state as they were.
C17_FailOpen ==
    Alive
    => /\ \A q \in Senders, text \in Texts :
             Malformed(q[1], q[2], text)
             => \A most_common \in
                       MostCommonChoices(floodnet, enabled, q[1], q[2], text, now) :
                   \A o \in check_message_flood_outcomes(floodnet, enabled, q[1], q[2],
                                                         text, now, most_common) :
                       o.path # "crash" /\ ~o.stopped /\ SameEngine(floodnet, o.f)
       /\ \A channel \in host.channels :
             LET o == sig_nicklist_changed_checked(floodnet, enabled, channel, TRUE, now)
             IN  ~o.stopped /\ SameEngine(floodnet, o.f)

----------------------------------------------------------------------------
(* The reset command *)

MaxTimeReset == 2
MaxWindowReset == 2
MaxBlockedReset == 2
MaxAttemptsReset == 1
MaxCtcpReset == 1
MaxChangesReset == 1
MidnightReset == 1

ResetEvents ==
    Midnight(Host(Inputs({"x"}, {Unverified}, {"s1"}, {"#a"}),
                  Limits(MaxTimeReset, MaxWindowReset, MaxBlockedReset,
                         MaxAttemptsReset, MaxCtcpReset, MaxChangesReset)),
             MidnightReset)

InitReset == InitWith({Case(Settings(2, 2, 1, 1, 1, 1, 1, 2), ResetEvents)})

NextReset ==
    \/ sig_event_privmsg
    \/ sig_ctcp
    \/ NicklistChanged
    \/ cmd_floodnet_details
    \/ cmd_floodnet_reset
    \/ Tick

SpecReset == InitReset /\ [][NextReset]_vars

\* f without its statistics: the two counters and the reset date
Unreset(f) ==
    [f EXCEPT !.flood_attempts_today = 0, !.total_messages_blocked = 0,
              !.last_reset_date = 0]

\* after the same event the reset engine and the other one differ in their
\* statistics alone
SameDecision(o, p) ==
    /\ p.path = o.path
    /\ p.stopped = o.stopped
    /\ p.out = o.out
    /\ p.met = o.met
    /\ p.exited = o.exited
    /\ Unreset(p.f) = Unreset(o.f)

\* every later event is decided by the reset engine g as by f
DecisionsUnaffected(f, g) ==
    /\ \A nick \in Nicks, r \in host.addresses \X host.texts :
          /\ MostCommonChoices(g, enabled, nick, r[1], r[2], now)
                = MostCommonChoices(f, enabled, nick, r[1], r[2], now)
          /\ \A most_common \in MostCommonChoices(f, enabled, nick, r[1], r[2], now) :
                SameDecision(
                    check_message_flood(f, enabled, nick, r[1], r[2], now, most_common),
                    check_message_flood(g, enabled, nick, r[1], r[2], now, most_common))
    /\ \A server \in host.servers :
          LET o == check_ctcp_flood(f, ctcp_tracking, enabled, server, now)
              p == check_ctcp_flood(g, ctcp_tracking, enabled, server, now)
          IN  SameDecision(o, p) /\ p.tracking = o.tracking
    /\ \A channel \in host.channels :
          SameDecision(sig_nicklist_changed(f, enabled, channel, now),
                       sig_nicklist_changed(g, enabled, channel, now))
    /\ \A q \in Announcements :
          SameDecision(sig_message_nick(f, enabled, q[1], q[2], now),
                       sig_message_nick(g, enabled, q[1], q[2], now))

\* C18 as stated: reset writes flood_attempts_today and total_messages_blocked
\* and leaves every other piece of state as it was.
C18_ResetWritesCountersOnly ==
    [reset_statistics(floodnet, now)
        EXCEPT !.flood_attempts_today = floodnet.flood_attempts_today,
               !.total_messages_blocked = floodnet.total_messages_blocked] = floodnet

\* C18: reset sets flood_attempts_today and total_messages_blocked to 0 and
\* last_reset_date to the current time and leaves everything else unchanged:
\* the protection state, the three blocklists and the windows are as before,
\* and every later event is decided as without the reset.
C18_ResetFrame ==
    LET g == reset_statistics(floodnet, now)
    IN  /\ g.flood_attempts_today = 0
        /\ g.total_messages_blocked = 0
        /\ g.last_reset_date = now
        /\ Unreset(g) = Unreset(floodnet)
        /\ DecisionsUnaffected(floodnet, g)

\* reset has just run, after midnight, in a protection period with a stored
\* block and blocked messages since the last notice
C18_Witness ==
    /\ ev.op = "reset"
    /\ floodnet.in_protection_mode
    /\ floodnet.blocked_since_notice > 0
    /\ floodnet.total_messages_blocked = 0
    /\ floodnet.ctcp_blocked_until # NoBlocks
    /\ floodnet.last_reset_date = now
    /\ now >= host.midnight

----------------------------------------------------------------------------
(* The details command, for block durations on both sides of a minute and
   of an hour *)

MaxTimeDetails == 2
MaxBlockedDetails == 2
MaxAttemptsDetails == 2
MaxCtcpDetails == 1
MaxChangesDetails == 1

Durations == {1, 2, 59, 60, 61, 62, 3599, 3600, 3601, 3661, 3662, 7199, 7200, 7325}

DetailsEvents ==
    Host(Inputs({}, {}, {"s1"}, {"#a"}),
         Limits(MaxTimeDetails, 0, MaxBlockedDetails, MaxAttemptsDetails,
                MaxCtcpDetails, MaxChangesDetails))

InitDetails ==
    InitWith({Case(Settings(2, 2, 1, 1, d, 1, 1, 2), DetailsEvents) : d \in Durations})

NextDetails == sig_ctcp \/ NicklistChanged \/ cmd_floodnet_details \/ Tick

SpecDetails == InitDetails /\ [][NextDetails]_vars

\* the seconds a printed word stands for
Seconds(word) ==
    word.d * (CASE word.s = "h" -> 3600 [] word.s = "m" -> 60 [] word.s = "s" -> 1
                [] OTHER -> 0)

RECURSIVE Recombined(_)
Recombined(text) ==
    IF text = <<>> THEN 0 ELSE Seconds(Head(text)) + Recombined(Tail(text))

Letters(text) == [i \in 1..Len(text) |-> text[i].s]

\* text is the remaining time r > 0 as "Ns", "Nm Ns" or "Nh Nm Ns"
Formatted(text, r) ==
    /\ r < 60 => text = <<Word(r, "s")>>
    /\ r >= 60 /\ r < 3600 => text = <<Word(r \div 60, "m"), Word(r % 60, "s")>>
    /\ r >= 3600 => text = <<Word(r \div 3600, "h"), Word((r % 3600) \div 60, "m"),
                             Word(r % 60, "s")>>
    /\ Letters(text) \in {<<"s">>, <<"m", "s">>, <<"h", "m", "s">>}
    /\ Recombined(text) = r
    /\ \A i \in 1..Len(text) : text[i].s \in {"m", "s"} => text[i].d < 60

\* the expiry times stored in the three blocklists
Expiries(f) ==
    {f.blocked_patterns[k] : k \in DOMAIN f.blocked_patterns}
    \cup {f.ctcp_blocked_until[k] : k \in DOMAIN f.ctcp_blocked_until}
    \cup {f.nick_blocked_channels[k] : k \in DOMAIN f.nick_blocked_channels}

\* C19: the text printed for a block with remaining = expiry - now > 0 is "Ns"
\* below a minute, "Nm Ns" below an hour and "Nh Nm Ns" from an hour on, with
\* the quotients and remainders of 3600 and 60; its components add up to
\* remaining and its minutes and seconds are below 60.  This holds of every
\* stored block at every time of the run, and of each line the details
\* command has just printed.
C19_RemainingTimeFormat ==
    /\ \A e \in Expiries(floodnet) : \A t \in 0..host.max_time :
          e - t > 0 => Formatted(format_time_remaining(e, t), e - t)
    /\ ev.op = "details"
       => /\ \A k \in DOMAIN ev.lines.servers :
                Formatted(ev.lines.servers[k], floodnet.ctcp_blocked_until[k] - now)
          /\ \A k \in DOMAIN ev.lines.channels :
                Formatted(ev.lines.channels[k], floodnet.nick_blocked_channels[k] - now)
          /\ \A k \in DOMAIN ev.lines.patterns :
                Formatted(ev.lines.patterns[k], floodnet.blocked_patterns[k] - now)

\* details has just printed a block of more than an hour with minutes and
\* seconds to go
C19_Witness ==
    /\ ev.op = "details"
    /\ \E k \in DOMAIN ev.lines.servers :
          /\ Len(ev.lines.servers[k]) = 3
          /\ ev.lines.servers[k][2].d > 0
          /\ ev.lines.servers[k][3].d > 0
          /\ floodnet.ctcp_blocked_until[k] - now > 3600

----------------------------------------------------------------------------
(* Nick changes on a blocked channel, with private messages that can end
   protection mode while the channel is still blocked *)

MaxTimeExtend == 4
MaxWindowExtend == 1
MaxBlockedExtend == 1
MaxAttemptsExtend == 1
MaxChangesExtend == 1

ExtendEvents ==
    Host(Inputs({"x"}, {Verified}, {"s1"}, {"#a", "#b"}),
         Limits(MaxTimeExtend, MaxWindowExtend, MaxBlockedExtend, MaxAttemptsExtend,
                0, MaxChangesExtend))

InitExtend == InitWith({Case(Settings(2, 2, 1, 1, 2, 1, 1, 2), ExtendEvents)})

NextExtend == sig_event_privmsg \/ NicklistChanged \/ MessageNick \/ Tick

SpecExtend == InitExtend /\ [][NextExtend]_vars

\* C20: a nick change observed on a channel whose block is unexpired sets that
\* channel's expiry to now + block_duration and changes nothing else: the
\* windows and change counts, the counters, the other blocks and the
\* protection state stay as they were, no notice is printed and
\* enter_protection_mode is not called.
C20_PhaseAExtendsOnly ==
    \A channel \in host.channels :
        enabled /\ channel \in DOMAIN floodnet.nick_blocked_channels
        /\ now < floodnet.nick_blocked_channels[channel]
        => LET o == sig_nicklist_changed(floodnet, enabled, channel, now)
           IN  /\ o.path = "extended"
               /\ o.f = [floodnet EXCEPT !.nick_blocked_channels[channel] =
                                             now + floodnet.block_duration]
               /\ o.out = <<>>
               /\ ~o.met
               /\ ~o.stopped

\* a nick change has just extended the block of a channel after a private
\* message ended protection mode: the block runs for block_duration from
\* now and protection mode is still Inactive
C20_Witness ==
    /\ ev.op = "nicklist changed"
    /\ ev.path = "extended"
    /\ ~floodnet.in_protection_mode
    /\ floodnet.flood_attempts_today = 1
    /\ \E channel \in DOMAIN floodnet.nick_blocked_channels :
          /\ floodnet.nick_blocked_channels[channel] = now + floodnet.block_duration
          /\ inserted_at.nick[channel] = now
          /\ floodnet.channel_nick_changes[channel].change_count = 1

----------------------------------------------------------------------------
(* Phase B, one announcement against several blocked channels *)

\* C21: an announcement whose nick is on one or more blocked channels of the
\* connection is stopped, sets the expiry of the first of them in channel
\* order to now + block_duration, adds exactly 1 to total_messages_blocked and
\* to blocked_since_notice, and leaves every other stored expiry as it is; an
\* announcement whose nick is on no blocked channel is let through, changes no
\* counter and extends no expiry.
C21_PhaseBFirstMatch ==
    \A q \in Announcements :
        enabled
        => LET o == PhaseB(q)
               before == floodnet.nick_blocked_channels
               after == o.f.nick_blocked_channels
           IN  IF \E channel \in q[2] : BlockedNow(channel)
               THEN /\ o.stopped
                    /\ after[FirstBlocked(q)] = now + floodnet.block_duration
                    /\ o.f.total_messages_blocked = floodnet.total_messages_blocked + 1
                    /\ o.f.blocked_since_notice = floodnet.blocked_since_notice + 1
                    /\ \A k \in DOMAIN after \ {FirstBlocked(q)} :
                          k \in DOMAIN before /\ after[k] = before[k]
                    /\ \A k \in DOMAIN before : BlockedNow(k) => k \in DOMAIN after
               ELSE /\ ~o.stopped
                    /\ o.f.total_messages_blocked = floodnet.total_messages_blocked
                    /\ o.f.blocked_since_notice = floodnet.blocked_since_notice
                    /\ \A k \in DOMAIN after : k \in DOMAIN before /\ after[k] = before[k]

\* an announcement has just been stopped once while two channels are blocked:
\* the first channel's block runs from now, the second's from an earlier time
C21_Witness ==
    /\ ev.op = "message nick"
    /\ ev.path = "blocked"
    /\ floodnet.total_messages_blocked = 1
    /\ floodnet.blocked_since_notice = 1
    /\ DOMAIN floodnet.nick_blocked_channels = {"#a", "#b"}
    /\ floodnet.nick_blocked_channels["#a"] = now + floodnet.block_duration
    /\ floodnet.nick_blocked_channels["#b"] < now + floodnet.block_duration
    /\ now < floodnet.nick_blocked_channels["#b"]

----------------------------------------------------------------------------
(* Renewal of a nick-channel block *)

\* the engine with the stored expiry of a blocked channel moved to e
WithExpiry(channel, e) == [floodnet EXCEPT !.nick_blocked_channels[channel] = e]

\* the expiries a blocked channel can hold, before and after now + block_duration
OtherExpiries == (now + 1)..(now + floodnet.block_duration + 2)

\* channel is answered blocked in f until t + block_duration and not from then on
BlockedUntilRenewal(f, channel, t) ==
    /\ f.nick_blocked_channels[channel] = t + floodnet.block_duration
    /\ \A u \in LookupTimes :
          is_nick_channel_blocked(f, channel, u) <=> u < t + floodnet.block_duration

\* C22: every stored nick-channel expiry is the time of the last event that
\* wrote it plus block_duration; a Phase A event on a blocked channel and a
\* Phase B suppression matching it set its expiry to now + block_duration
\* whatever expiry was stored, earlier or later, so that the channel is
\* blocked until then and a further event before then renews it again.
C22_NickBlockRenewed ==
    /\ \A k \in DOMAIN floodnet.nick_blocked_channels :
          floodnet.nick_blocked_channels[k] = inserted_at.nick[k] + floodnet.block_duration
    /\ \A channel \in host.channels : \A e \in OtherExpiries :
          enabled /\ BlockedNow(channel)
          => BlockedUntilRenewal(
                 sig_nicklist_changed(WithExpiry(channel, e), enabled, channel, now).f,
                 channel, now)
    /\ \A q \in Announcements : \A e \in OtherExpiries :
          enabled /\ (\E channel \in q[2] : BlockedNow(channel))
          => BlockedUntilRenewal(
                 sig_message_nick(WithExpiry(FirstBlocked(q), e), enabled, q[1], q[2],
                                  now).f,
                 FirstBlocked(q), now)

\* a block made by the one threshold event of the run is still running after
\* its first expiry: an announcement has just renewed it
C22_Witness ==
    /\ ev.op = "message nick"
    /\ ev.path = "blocked"
    /\ floodnet.flood_attempts_today = 1
    /\ floodnet.in_protection_mode
    /\ DOMAIN floodnet.nick_blocked_channels = {"#a"}
    /\ floodnet.nick_blocked_channels["#a"] = now + floodnet.block_duration
    /\ now >= floodnet.protection_started + floodnet.block_duration + 1

----------------------------------------------------------------------------
(* The first event after a block has expired *)

\* the block stored for key has expired and no lookup has removed it yet: no
\* event on key has been evaluated since the expiry
ExpiredStored(map, key) == key \in DOMAIN map /\ map[key] <= now

\* C23: once a connection's CTCP block or a channel's nick block has expired,
\* one new CTCP request on that connection, or one new nick change on that
\* channel, does not create the block again when the threshold is greater
\* than 1, whatever block_duration and the window are.
C23_ExpiredBlockNotRecreated ==
    /\ \A server \in host.servers :
          /\ enabled
          /\ floodnet.ctcp_threshold > 1
          /\ ExpiredStored(floodnet.ctcp_blocked_until, server)
          => LET after == check_ctcp_flood(floodnet, ctcp_tracking, enabled, server, now)
             IN  /\ ~after.stopped
                 /\ server \notin DOMAIN after.f.ctcp_blocked_until
    /\ \A channel \in host.channels :
          /\ enabled
          /\ floodnet.nickchange_threshold > 1
          /\ ExpiredStored(floodnet.nick_blocked_channels, channel)
          => channel \notin
                 DOMAIN sig_nicklist_changed(floodnet, enabled, channel, now).f
                            .nick_blocked_channels

----------------------------------------------------------------------------
(* The periodic notice of check_protection_status *)

\* check_protection_status called in the current state, as the first step of
\* the evaluation of a private message
StatusCall == check_protection_status(floodnet, <<>>, now)

\* the periodic notice is due
NoticeDue == now - floodnet.last_protection_notice >= floodnet.protection_notice_interval

\* the periodic notices among the texts of out
PeriodicNotices(out) == {i \in 1..Len(out) : out[i] \notin {"ACTIVATED", "ended"}}

\* a due notice is printed once, of now - protection_started and of
\* blocked_since_notice, and both fields are set
DueNoticePrinted ==
    floodnet.in_protection_mode /\ NoticeDue
    => /\ Cardinality(PeriodicNotices(StatusCall[2])) = 1
       /\ \A i \in PeriodicNotices(StatusCall[2]) :
             StatusCall[2][i] = still_active_notice(now - floodnet.protection_started,
                                                    floodnet.blocked_since_notice)
       /\ StatusCall[1].blocked_since_notice = 0
       /\ StatusCall[1].last_protection_notice = now

\* nothing printed and nothing written while Inactive
InactiveSilent ==
    ~floodnet.in_protection_mode => StatusCall[2] = <<>> /\ StatusCall[1] = floodnet

\* C24 as stated: a due notice is printed once with both numbers and sets both
\* fields; when no notice is due none is printed and blocked_since_notice and
\* last_protection_notice are unchanged by the call; while Inactive the call
\* prints nothing and changes nothing.
C24_PeriodicNotice ==
    /\ DueNoticePrinted
    /\ floodnet.in_protection_mode /\ ~NoticeDue
       => /\ PeriodicNotices(StatusCall[2]) = {}
          /\ StatusCall[1].last_protection_notice = floodnet.last_protection_notice
          /\ StatusCall[1].blocked_since_notice = floodnet.blocked_since_notice
    /\ InactiveSilent

\* C24, amended: as above, but when no notice is due blocked_since_notice is
\* unchanged only if the call leaves protection mode Active; a call that ends
\* protection mode sets it to 0.
C24_PeriodicNoticeUnlessEnded ==
    /\ DueNoticePrinted
    /\ floodnet.in_protection_mode /\ ~NoticeDue
       => /\ PeriodicNotices(StatusCall[2]) = {}
          /\ StatusCall[1].last_protection_notice = floodnet.last_protection_notice
          /\ StatusCall[1].blocked_since_notice =
                 IF StatusCall[1].in_protection_mode
                 THEN floodnet.blocked_since_notice ELSE 0
    /\ InactiveSilent

\* a private message has just had the periodic notice printed, reporting two
\* suppressed messages, and protection mode is still Active
C24_Witness ==
    /\ ev.op = "privmsg"
    /\ floodnet.in_protection_mode
    /\ floodnet.last_protection_notice = now
    /\ \E i \in 1..Len(printed) :
          printed[i] = still_active_notice(now - floodnet.protection_started, 2)

----------------------------------------------------------------------------
(* A verified sender's message under Active protection *)

\* the engine of this call after check_protection_status and the purge of the
\* window, where the pre-check reads it
Purged == cleanup_old_messages(check_protection_status(floodnet, <<>>, now)[1], now)

\* the texts of the window of f
TextsIn(f) == {f.message_window[i].text : i \in 1..Len(f.message_window)}

\* C25: while protection mode is Active, a private message from a sender
\* without the unverified-ident marker whose text is not blocked is added to
\* the window, and both rules are evaluated on the window that results: the
\* tilde rule blocks the message and every text of the window, otherwise the
\* duplicate rule on a window of at least 5 records blocks the most frequent
\* text and stops the message if that is its text, otherwise it is allowed.
C25_AnalysisDuringProtection ==
    \A nick \in Nicks, text \in host.texts :
      \A most_common \in MostCommonChoices(floodnet, enabled, nick, Verified, text, now) :
        /\ enabled
        /\ Verified \in host.addresses
        /\ Purged.in_protection_mode
        /\ ~is_message_blocked(Purged, text, now)
        => LET o == check_message_flood(floodnet, enabled, nick, Verified, text, now,
                                        most_common)
               g == o.f
               by_tilde == /\ g.message_count >= g.tilde_threshold
                           /\ count_tilde_users(g) >= g.tilde_threshold
               by_duplicate == /\ g.message_count >= DUPLICATE_MIN_MESSAGES
                               /\ freq(g, most_common) >= g.duplicate_threshold
           IN  /\ g.message_window =
                      <<[timestamp |-> now, text |-> text, has_tilde |-> FALSE]>>
                          \o Purged.message_window
               /\ g.message_count = Purged.message_count + 1
               /\ g.in_protection_mode
               /\ by_tilde
                  => /\ o.stopped
                     /\ \A other \in TextsIn(g) : is_message_blocked(g, other, now)
               /\ ~by_tilde /\ by_duplicate
                  => /\ is_message_blocked(g, most_common, now)
                     /\ o.stopped <=> text = most_common
               /\ ~by_tilde /\ ~by_duplicate
                  => /\ ~o.stopped
                     /\ \A other \in host.texts :
                           is_message_blocked(g, other, now)
                               <=> is_message_blocked(Purged, other, now)

\* under protection that was Active before the call, the one message recorded
\* at this second came from a verified sender, had a new text inserted into the
\* blocklist and was stopped
C25_Witness ==
    /\ ev.op = "privmsg"
    /\ ev.stopped
    /\ ev.path \in {"tilde", "duplicate"}
    /\ floodnet.in_protection_mode
    /\ floodnet.protection_started < now
    /\ Cardinality({i \in 1..Len(floodnet.message_window) :
                       floodnet.message_window[i].timestamp = now}) = 1
    /\ ~Head(floodnet.message_window).has_tilde
    /\ Head(floodnet.message_window).timestamp = now
    /\ inserted_at.msg[Head(floodnet.message_window).text] = now

----------------------------------------------------------------------------
(* The most frequent text *)

MaxTimeTie == 1
MaxWindowTie == 5
MaxBlockedTie == 2
MaxAttemptsTie == 2

\* three texts from verified-ident senders, up to the Pattern B sample size
TieEvents ==
    Host(Inputs({"a", "b", "c"}, {Verified}, {}, {}),
         Limits(MaxTimeTie, MaxWindowTie, MaxBlockedTie, MaxAttemptsTie, 0, 0))

InitTie == InitWith({Case(Settings(6, 2, 1, 1, 1, 1, 1, 2), TieEvents)})

NextTie == sig_event_privmsg \/ Tick

SpecTie == InitTie /\ [][NextTie]_vars

\* the number of records of the window of f that carry text
Occurrences(f, text) ==
    Cardinality({i \in 1..Len(f.message_window) : f.message_window[i].text = text})

\* the texts blocked in g at time t that were not blocked in f
NewlyBlocked(f, g, t) ==
    {text \in DOMAIN g.blocked_patterns :
        is_message_blocked(g, text, t) /\ ~is_message_blocked(f, text, t)}

\* C26: every text find_most_common_message can return occurs in the window
\* with the largest number of occurrences of any text, and the count returned
\* with it is that number; a window with records yields a text. One evaluation
\* of the duplicate rule works with one returned text: it inserts no text but
\* that one, and stops the message only if the message carries that text.
C26_MostCommonText ==
    /\ floodnet.message_window # <<>> => find_most_common_message(floodnet) # {}
    /\ \A text \in find_most_common_message(floodnet) :
          /\ text \in TextsIn(floodnet)
          /\ \A other \in TextsIn(floodnet) :
                Occurrences(floodnet, other) <= Occurrences(floodnet, text)
          /\ most_common_count(floodnet) = Occurrences(floodnet, text)
    /\ \A nick \in Nicks, address \in host.addresses, text \in host.texts :
        \A most_common \in MostCommonChoices(floodnet, enabled, nick, address, text, now) :
          LET o == check_message_flood(floodnet, enabled, nick, address, text, now,
                                       most_common)
          IN  o.met /\ o.path # "tilde"
              => /\ most_common \in find_most_common_message(o.f)
                 /\ NewlyBlocked(Purged, o.f, now) \subseteq {most_common}
                 /\ o.stopped <=> text = most_common

\* five records whose texts tie for the largest count: the duplicate rule has
\* just stopped the message and only its text is in the blocklist
C26_Witness ==
    /\ ev.op = "privmsg"
    /\ ev.path = "duplicate"
    /\ ev.stopped
    /\ Len(floodnet.message_window) = DUPLICATE_MIN_MESSAGES
    /\ Cardinality(find_most_common_message(floodnet)) >= 2
    /\ DOMAIN floodnet.blocked_patterns = {Head(floodnet.message_window).text}

----------------------------------------------------------------------------
(* The sweep of the status and details commands and what they print *)

MaxTimeCounts == 2
MaxWindowCounts == 1
MaxBlockedCounts == 2
MaxAttemptsCounts == 2
MaxCtcpCounts == 1
MaxChangesCounts == 1

CountsEvents ==
    Host(Inputs({"x"}, {Unverified}, {"s1", "s2"}, {"#a"}),
         Limits(MaxTimeCounts, MaxWindowCounts, MaxBlockedCounts, MaxAttemptsCounts,
                MaxCtcpCounts, MaxChangesCounts))

InitCounts == InitWith({Case(Settings(1, 2, 1, 1, 1, 1, 1, 2), CountsEvents)})

NextCounts ==
    \/ sig_event_privmsg
    \/ sig_ctcp
    \/ NicklistChanged
    \/ cmd_floodnet_status
    \/ cmd_floodnet_details
    \/ Tick

SpecCounts == InitCounts /\ [][NextCounts]_vars

\* the entries of map whose expiry lies after t
Unexpired(map, t) == [k \in {j \in DOMAIN map : map[j] > t} |-> map[k]]

\* the engine after the daily reset and the sweep of a command run now
AfterCommand(shared) ==
    cleanup_expired_blocks(check_daily_reset(floodnet, now, host.midnight, shared), now)

\* C27: the sweep of the status or details command at time now leaves in each
\* of the three blocklists exactly the entries it held with expiry > now, each
\* with its expiry; the three counts of status are the numbers of those
\* entries, and details prints a remaining time, never "expired", for every
\* entry it lists.
C27_SweepAndCounts ==
    \A shared \in BOOLEAN :
        LET g == AfterCommand(shared)
        IN  /\ g.blocked_patterns = Unexpired(floodnet.blocked_patterns, now)
            /\ g.ctcp_blocked_until = Unexpired(floodnet.ctcp_blocked_until, now)
            /\ g.nick_blocked_channels = Unexpired(floodnet.nick_blocked_channels, now)
            /\ status_counts(g) =
                   [active_blocks |->
                        Cardinality({k \in DOMAIN floodnet.blocked_patterns :
                                        floodnet.blocked_patterns[k] > now}),
                    ctcp_blocks |->
                        Cardinality({k \in DOMAIN floodnet.ctcp_blocked_until :
                                        floodnet.ctcp_blocked_until[k] > now}),
                    nick_blocks |->
                        Cardinality({k \in DOMAIN floodnet.nick_blocked_channels :
                                        floodnet.nick_blocked_channels[k] > now})]
            /\ LET lines == details_lines(g, now)
               IN  \A list \in DOMAIN lines : \A k \in DOMAIN lines[list] :
                      \A i \in 1..Len(lines[list][k]) :
                         lines[list][k][i].s # "expired"

\* a status command that ran no daily reset has just removed an entry and
\* reports the CTCP block it kept
C27_Witness ==
    /\ ev.op = "status"
    /\ floodnet.last_reset_date = 0
    /\ ev.counts.ctcp_blocks = 1
    /\ \E server \in DOMAIN floodnet.ctcp_blocked_until :
          floodnet.ctcp_blocked_until[server] > now
    /\ floodnet.total_messages_blocked = 2

----------------------------------------------------------------------------
(* The total of suppressed events *)

MaxTimeTotal == 1
MaxWindowTotal == 5
MaxBlockedTotal == 2
MaxAttemptsTotal == 2
MaxCtcpTotal == 1
MaxChangesTotal == 1

\* every detector and the status command; five records of one text reach the
\* duplicate rule, two unverified senders the tilde rule
TotalEvents ==
    Host(Inputs({"x"}, {Unverified, Verified}, {"s1"}, {"#a"}),
         Limits(MaxTimeTotal, MaxWindowTotal, MaxBlockedTotal, MaxAttemptsTotal,
                MaxCtcpTotal, MaxChangesTotal))

\* verified senders with two texts: a message can be allowed while the
\* duplicate rule blocks the other text
TotalTexts ==
    Host(Inputs({"x", "y"}, {Verified}, {}, {}),
         Limits(MaxTimeTotal, MaxWindowTotal, MaxBlockedTotal, MaxAttemptsTotal,
                MaxCtcpTotal, MaxChangesTotal))

InitTotal ==
    InitWith({Case(Settings(2, 2, 1, 1, 1, 1, 1, 2), TotalEvents),
              Case(Settings(2, 2, 1, 1, 1, 1, 1, 2), TotalTexts)})

NextTotal ==
    \/ sig_event_privmsg
    \/ sig_ctcp
    \/ NicklistChanged
    \/ MessageNick
    \/ cmd_floodnet_status
    \/ Tick

SpecTotal == InitTotal /\ [][NextTotal]_vars

\* the step takes the named return path of the named handler, stops the event
\* and adds 1 to the total
BlockStep(op, path) ==
    /\ ev'.op = op
    /\ ev'.path = path
    /\ ev'.stopped
    /\ floodnet'.total_messages_blocked = floodnet.total_messages_blocked + 1

\* C28: a step that returns Block (the pre-check, the tilde rule or the
\* duplicate rule of a private message, a CTCP request, a Phase B
\* announcement) adds exactly 1 to total_messages_blocked, and every other
\* step (an allowed event, a Phase A nick change, a sweep, a second passing)
\* leaves it unchanged, so that without a reset the total is the number of
\* Block decisions made.
C28_TotalCountsBlocks ==
    [][\/ BlockStep("privmsg", "protection")
       \/ BlockStep("privmsg", "tilde")
       \/ BlockStep("privmsg", "duplicate")
       \/ BlockStep("ctcp", "blocked")
       \/ BlockStep("ctcp", "threshold")
       \/ BlockStep("message nick", "blocked")
       \/ /\ ~ev'.stopped
          /\ floodnet'.total_messages_blocked = floodnet.total_messages_blocked]_vars

\* the duplicate rule has just stopped a fifth record of a verified sender: the
\* first suppressed event of the run
C28_Witness ==
    /\ ev.op = "privmsg"
    /\ ev.path = "duplicate"
    /\ ev.stopped
    /\ floodnet.total_messages_blocked = 1
    /\ floodnet.message_count = DUPLICATE_MIN_MESSAGES

----------------------------------------------------------------------------
(* Suppression and the protection flag *)

\* C29: whenever the evaluation of a private message, a CTCP request or a
\* nick-change announcement returns Block, protection mode is Active at the
\* end of that evaluation.
C29_BlockOnlyUnderProtection ==
    ev.op \in {"privmsg", "ctcp", "message nick"} /\ ev.stopped
    => floodnet.in_protection_mode

----------------------------------------------------------------------------
(* The expiry of a message-text block *)

\* C30: a text whose block is unexpired keeps its entry and its expiry through
\* every step, whatever rule the step evaluates; an entry is removed only at a
\* time at or after its expiry, and an entry is written only for a text that
\* is not blocked, with now + block_duration. So the expiry of a text stays
\* block_duration after its insertion until a lookup or a sweep removes it.
C30_TextBlockNotRenewed ==
    [][/\ \A text \in DOMAIN floodnet.blocked_patterns :
             now < floodnet.blocked_patterns[text]
             => /\ text \in DOMAIN floodnet'.blocked_patterns
                /\ floodnet'.blocked_patterns[text] = floodnet.blocked_patterns[text]
       /\ \A text \in DOMAIN floodnet'.blocked_patterns :
             \/ /\ text \in DOMAIN floodnet.blocked_patterns
                /\ floodnet'.blocked_patterns[text] = floodnet.blocked_patterns[text]
             \/ /\ ~is_message_blocked(floodnet, text, now)
                /\ floodnet'.blocked_patterns[text] = now + floodnet.block_duration]_vars

\* the tilde rule has just fired on a window holding a text that was blocked
\* at an earlier second and is still blocked: its expiry is the one set then
C30_Witness ==
    /\ ev.op = "privmsg"
    /\ ev.path = "tilde"
    /\ \E text \in DOMAIN floodnet.blocked_patterns :
          /\ text \in TextsIn(floodnet)
          /\ inserted_at.msg[text] < now
          /\ floodnet.blocked_patterns[text] = inserted_at.msg[text] + floodnet.block_duration
          /\ now < floodnet.blocked_patterns[text]

----------------------------------------------------------------------------
(* A request on a blocked connection *)

\* C31: a CTCP request on a connection whose block is unexpired is stopped and
\* adds 1 to total_messages_blocked and to blocked_since_notice; the block's
\* expiry, the other blocklists, the connection's timestamps and count, the
\* protection state and flood_attempts_today are as before and nothing is
\* printed. Every stored expiry is block_duration after the request that
\* wrote it, and the connection is blocked before that time and not from it on.
C31_CtcpBlockFixed ==
    /\ \A server \in DOMAIN floodnet.ctcp_blocked_until :
          floodnet.ctcp_blocked_until[server]
              = inserted_at.ctcp[server] + floodnet.block_duration
    /\ \A server \in host.servers :
          /\ enabled
          /\ server \in DOMAIN floodnet.ctcp_blocked_until
          /\ now < floodnet.ctcp_blocked_until[server]
          => LET o == check_ctcp_flood(floodnet, ctcp_tracking, enabled, server, now)
             IN  /\ o.stopped
                 /\ o.out = <<>>
                 /\ o.tracking = ctcp_tracking
                 /\ o.f = [floodnet EXCEPT !.total_messages_blocked = @ + 1,
                                           !.blocked_since_notice = @ + 1]
                 /\ \A u \in LookupTimes :
                       is_ctcp_blocked(o.f, server, u)
                           <=> u < floodnet.ctcp_blocked_until[server]

\* the second request rejected on a connection blocked at an earlier second:
\* the expiry is still the one the threshold request set
C31_Witness ==
    /\ ev.op = "ctcp"
    /\ ev.path = "blocked"
    /\ floodnet.total_messages_blocked = 3
    /\ floodnet.flood_attempts_today = 1
    /\ \E server \in DOMAIN floodnet.ctcp_blocked_until :
          /\ inserted_at.ctcp[server] < now
          /\ now < floodnet.ctcp_blocked_until[server]
          /\ floodnet.ctcp_blocked_until[server]
                 = inserted_at.ctcp[server] + floodnet.block_duration

----------------------------------------------------------------------------
(* The handlers while anti_floodnet_enabled is off *)

\* the outcome allows the event, prints nothing and leaves the engine as it is
Untouched(o) == ~o.stopped /\ o.out = <<>> /\ o.f = floodnet

\* C32: while the enabled setting is off, a private message, a CTCP request,
\* a Phase A nick change and a Phase B announcement are each allowed and leave
\* the engine, windows, blocklists, counters and protection state included, and
\* the CTCP timestamps exactly as they were; nothing is printed.
C32_DisabledChangesNothing ==
    ~enabled
    => /\ \A nick \in Nicks, address \in host.addresses, text \in host.texts :
             Untouched(check_message_flood(floodnet, enabled, nick, address, text, now,
                                           text))
       /\ \A server \in host.servers :
             LET o == check_ctcp_flood(floodnet, ctcp_tracking, enabled, server, now)
             IN  Untouched(o) /\ o.tracking = ctcp_tracking
       /\ \A channel \in host.channels :
             Untouched(sig_nicklist_changed(floodnet, enabled, channel, now))
       /\ \A q \in Announcements :
             Untouched(sig_message_nick(floodnet, enabled, q[1], q[2], now))

\* a private message has just been let through while disabled, although
\* protection mode is Active, the auto-exit is due and an expired block is
\* still stored
C32_Witness ==
    /\ ~enabled
    /\ ev.op = "privmsg"
    /\ ev.path = "disabled"
    /\ AutoExitDue(floodnet, now)
    /\ \E channel \in DOMAIN floodnet.nick_blocked_channels :
          floodnet.nick_blocked_channels[channel] <= now

----------------------------------------------------------------------------
(* The CTCP and nick detectors and the protection state *)

MaxTimeFlag == 2
MaxBlockedFlag == 2
MaxAttemptsFlag == 2
MaxCtcpFlag == 1
MaxChangesFlag == 1

\* CTCP requests and nick changes; one request or one change meets a threshold
FlagEvents ==
    Host(Inputs({}, {}, {"s1"}, {"#a", "#b"}),
         Limits(MaxTimeFlag, 0, MaxBlockedFlag, MaxAttemptsFlag, MaxCtcpFlag,
                MaxChangesFlag))

InitFlag == InitWith({Case(Settings(2, 2, 1, 1, 1, 1, 1, 2), FlagEvents)})

NextFlag == sig_ctcp \/ NicklistChanged \/ MessageNick \/ Tick

SpecFlag == InitFlag /\ [][NextFlag]_vars

\* the engine with another protection state and everything else as it is
ProtectionVariants ==
    {[floodnet EXCEPT !.in_protection_mode = active,
                      !.protection_started = started,
                      !.last_protection_notice = notice,
                      !.blocked_since_notice = since] :
        active \in BOOLEAN, started \in 0..now, notice \in 0..now,
        since \in 0..host.max_blocked}

\* the CTCP and nick windows and blocklists of an engine
DetectorState(f) ==
    <<f.ctcp_blocked_until, f.nick_blocked_channels, f.channel_nick_changes>>

\* C33: engines that differ only in the protection state (the flag, the
\* activation and notice times, blocked_since_notice) decide the same CTCP
\* request, the same Phase A nick change and the same Phase B announcement
\* alike, and are left with the same CTCP and nick windows and blocklists.
C33_ProtectionFlagNotRead ==
    \A g \in ProtectionVariants :
        /\ \A server \in host.servers :
              LET a == check_ctcp_flood(floodnet, ctcp_tracking, enabled, server, now)
                  b == check_ctcp_flood(g, ctcp_tracking, enabled, server, now)
              IN  /\ a.stopped = b.stopped
                  /\ a.tracking = b.tracking
                  /\ DetectorState(a.f) = DetectorState(b.f)
        /\ \A channel \in host.channels :
              LET a == sig_nicklist_changed(floodnet, enabled, channel, now)
                  b == sig_nicklist_changed(g, enabled, channel, now)
              IN  a.stopped = b.stopped /\ DetectorState(a.f) = DetectorState(b.f)
        /\ \A q \in Announcements :
              LET a == sig_message_nick(floodnet, enabled, q[1], q[2], now)
                  b == sig_message_nick(g, enabled, q[1], q[2], now)
              IN  a.stopped = b.stopped /\ DetectorState(a.f) = DetectorState(b.f)

\* a CTCP request has just been rejected under Active protection while a
\* channel is blocked too: the same request and the same announcement are
\* rejected with protection Inactive
C33_Witness ==
    /\ ev.op = "ctcp"
    /\ ev.path = "blocked"
    /\ enabled
    /\ floodnet.in_protection_mode
    /\ \E channel \in host.channels : BlockedNow(channel)
    /\ \E g \in ProtectionVariants :
          /\ ~g.in_protection_mode
          /\ \E server \in host.servers :
                check_ctcp_flood(g, ctcp_tracking, enabled, server, now).stopped

----------------------------------------------------------------------------
(* Private messages under protection entered by the CTCP or nick detector *)

MaxTimeCoupling == 2
MaxWindowCoupling == 5
MaxBlockedCoupling == 2
MaxAttemptsCoupling == 2
MaxCtcpCoupling == 1
MaxChangesCoupling == 1

CouplingEvents ==
    Host(Inputs({"x", "y"}, {Unverified, Verified}, {"s1"}, {"#a"}),
         Limits(MaxTimeCoupling, MaxWindowCoupling, MaxBlockedCoupling,
                MaxAttemptsCoupling, MaxCtcpCoupling, MaxChangesCoupling))

InitCoupling == InitWith({Case(Settings(1, 2, 1, 1, 1, 1, 1, 2), CouplingEvents)})

\* the auto-exit deadline of check_protection_status has not passed
BeforeDeadline ==
    /\ floodnet.in_protection_mode
    /\ now - floodnet.protection_started <= floodnet.block_duration + floodnet.time_window

\* the host delivers private messages only once a CTCP request or a nick
\* change has entered protection mode, and only before the deadline
PrivmsgBeforeDeadline == BeforeDeadline /\ sig_event_privmsg

NextCoupling == sig_ctcp \/ NicklistChanged \/ PrivmsgBeforeDeadline \/ Tick

SpecCoupling == InitCoupling /\ [][NextCoupling]_vars

\* the evaluations of one more private message from a sender with the given
\* address
MessageFrom(address, text) ==
    UNION {{check_message_flood(floodnet, enabled, nick, address, text, now, most_common) :
               most_common \in MostCommonChoices(floodnet, enabled, nick, address, text,
                                                 now)} :
           nick \in Nicks}

\* every private message of an unverified sender before the deadline is stopped
UnverifiedBlocked ==
    BeforeDeadline
    => \A text \in host.texts : \A o \in MessageFrom(Unverified, text) : o.stopped

\* C34 as stated: under protection entered by the CTCP or the nick detector
\* alone, before the auto-exit deadline every private message of an unverified
\* sender is stopped and every private message of a verified sender with a text
\* that is not blocked is allowed.
C34_Coupling ==
    /\ UnverifiedBlocked
    /\ BeforeDeadline
       => \A text \in host.texts :
             ~is_message_blocked(floodnet, text, now)
             => \A o \in MessageFrom(Verified, text) : ~o.stopped

\* C34, amended: as above, but the verified sender's message is stopped when
\* it makes the duplicate rule fire on its own text, that is when the window
\* with it holds at least 5 records and its text is the most frequent one
\* chosen, with at least duplicate_threshold occurrences; otherwise allowed.
C34_CouplingUnlessDuplicate ==
    /\ UnverifiedBlocked
    /\ BeforeDeadline
       => \A text \in host.texts :
             ~is_message_blocked(floodnet, text, now)
             => \A o \in MessageFrom(Verified, text) :
                   o.stopped
                   <=> /\ o.f.message_count >= DUPLICATE_MIN_MESSAGES
                       /\ Occurrences(o.f, text) >= o.f.duplicate_threshold
                       /\ \A other \in TextsIn(o.f) :
                             Occurrences(o.f, other) <= Occurrences(o.f, text)
                       /\ is_message_blocked(o.f, text, now)

\* protection was entered by a CTCP request; an unverified sender's private
\* message has just been stopped after a verified sender's was let into the
\* window
C34_Witness ==
    /\ ev.op = "privmsg"
    /\ ev.path = "protection"
    /\ BeforeDeadline
    /\ DOMAIN floodnet.ctcp_blocked_until # {}
    /\ floodnet.blocked_patterns = NoBlocks
    /\ floodnet.message_count = 1
    /\ ~Head(floodnet.message_window).has_tilde

----------------------------------------------------------------------------
(* The order of the notices *)

\* the protection state as a word
Mode(f) == IF f.in_protection_mode THEN "Active" ELSE "Inactive"

\* the protection state after the notices of out, read from the state mode, or
\* "bad" where a notice breaks the order: ACTIVATED only while Inactive, the
\* periodic and the final notice only while Active
RECURSIVE Walk(_, _)
Walk(mode, out) ==
    IF out = <<>> \/ mode = "bad" THEN mode
    ELSE IF Head(out) = "ACTIVATED"
    THEN Walk(IF mode = "Inactive" THEN "Active" ELSE "bad", Tail(out))
    ELSE IF Head(out) = "ended"
    THEN Walk(IF mode = "Active" THEN "Inactive" ELSE "bad", Tail(out))
    ELSE Walk(IF mode = "Active" THEN "Active" ELSE "bad", Tail(out))

\* C35: the notices of every step continue the order (ACTIVATED, Still
\* active*, ended)* from the protection state before the step and end in the
\* protection state after it, so that, protection being Inactive at start with
\* nothing printed, the whole sequence has that shape; a step prints at most
\* one periodic notice, only when at least protection_notice_interval seconds
\* have passed since last_protection_notice, which is the time of the latest
\* ACTIVATED or periodic notice of the period: it is set to the time of the
\* step by a step printing either and left alone by every other step.
C35_NoticeOrder ==
    [][/\ Walk(Mode(floodnet), printed') = Mode(floodnet')
       /\ Cardinality(PeriodicNotices(printed')) <= 1
       /\ PeriodicNotices(printed') # {}
          => now - floodnet.last_protection_notice >= floodnet.protection_notice_interval
       /\ floodnet'.last_protection_notice =
              IF \E i \in 1..Len(printed') : printed'[i] # "ended"
              THEN now ELSE floodnet.last_protection_notice]_vars

\* the second periodic notice of the only period of the run has just been
\* printed: it reports fewer suppressed messages than the period has seen
C35_Witness ==
    /\ ev.op = "privmsg"
    /\ floodnet.in_protection_mode
    /\ floodnet.flood_attempts_today = 1
    /\ \E k \in 0..host.max_blocked :
          /\ printed = <<still_active_notice(now - floodnet.protection_started, k)>>
          /\ k < floodnet.total_messages_blocked - floodnet.blocked_since_notice
    /\ now - floodnet.protection_started >= 2 * floodnet.protection_notice_interval

----------------------------------------------------------------------------
(* The protection timestamps and blocked_since_notice *)

\* 1 for a step that stops its event, 0 for any other
Blocks(e) == IF e.stopped THEN 1 ELSE 0

\* C36: after every step that leaves protection mode Active,
\* protection_started <= last_protection_notice <= now, and
\* blocked_since_notice is 0 plus the step's own Block if the step printed
\* ACTIVATED or a periodic notice, and otherwise its value before the step
\* plus the step's own Block: counted from 0 at the activation or the latest
\* periodic notice, it is the number of Block decisions made since.
C36_TimestampsOrdered ==
    [][floodnet'.in_protection_mode
       => /\ floodnet'.protection_started <= floodnet'.last_protection_notice
          /\ floodnet'.last_protection_notice <= now'
          /\ floodnet'.blocked_since_notice >= 0
          /\ floodnet'.blocked_since_notice =
                 IF \E i \in 1..Len(printed') : printed'[i] # "ended"
                 THEN Blocks(ev')
                 ELSE floodnet.blocked_since_notice + Blocks(ev')]_vars

\* a period that began after the start of the run has had a periodic notice,
\* and one event has been stopped since
C36_Witness ==
    /\ floodnet.in_protection_mode
    /\ ev.stopped
    /\ 0 < floodnet.protection_started
    /\ floodnet.protection_started < floodnet.last_protection_notice
    /\ floodnet.last_protection_notice <= now
    /\ floodnet.blocked_since_notice = 1
    /\ floodnet.total_messages_blocked > 1

----------------------------------------------------------------------------
(* The CTCP state of two connections *)

\* the entry of the block table for one server, or "none"
BlockEntry(f, server) ==
    IF server \in DOMAIN f.ctcp_blocked_until
    THEN <<"until", f.ctcp_blocked_until[server]>> ELSE <<"none">>

\* C37: a CTCP evaluation for connection A leaves the timestamp window, the
\* ctcp_count and the block expiry of every other connection B as they were,
\* and a request on B at any later time gets the same Allow/Block decision,
\* and leaves B the same record and block, whether or not A's request was
\* evaluated first.
C37_CtcpPerConnection ==
    \A A \in host.servers : \A B \in host.servers \ {A} :
        LET o == check_ctcp_flood(floodnet, ctcp_tracking, enabled, A, now)
        IN  /\ o.tracking[B] = ctcp_tracking[B]
            /\ BlockEntry(o.f, B) = BlockEntry(floodnet, B)
            /\ \A u \in now..host.max_time :
                  LET with    == check_ctcp_flood(o.f, o.tracking, enabled, B, u)
                      without == check_ctcp_flood(floodnet, ctcp_tracking,
                                                  enabled, B, u)
                  IN  /\ with.stopped = without.stopped
                      /\ with.tracking[B] = without.tracking[B]
                      /\ BlockEntry(with.f, B) = BlockEntry(without.f, B)

\* a request has just put one connection under a block while the window of
\* another one holds a request and is one short of the threshold
C37_Witness ==
    /\ ev.op = "ctcp"
    /\ ev.stopped
    /\ ev.met
    /\ \E A \in host.servers : \E B \in host.servers \ {A} :
          /\ is_ctcp_blocked(floodnet, A, now)
          /\ B \notin DOMAIN floodnet.ctcp_blocked_until
          /\ ctcp_tracking[B].ctcp_count = 1
          /\ floodnet.ctcp_threshold = 2
          /\ ~check_ctcp_flood(floodnet, ctcp_tracking, enabled, B, now + 2).stopped

----------------------------------------------------------------------------
(* The nick-flood state of two connections *)

\* C38: a nick change observed on a channel of connection A leaves the
\* nick-change window of every channel of another connection B as it was, and
\* a nick-change announcement on B at any later time is stopped after it only
\* if it would have been stopped without it, also when the two channels have
\* the same name.
C38_NickPerConnection ==
    \A A \in host.servers : \A B \in host.servers \ {A} :
        \A channel \in Range(ServerChannels[A]) \cap host.channels :
            LET o == sig_nicklist_changed(floodnet, enabled, channel, now)
            IN  /\ \A other \in Range(ServerChannels[B]) :
                      o.f.channel_nick_changes[other]
                          = floodnet.channel_nick_changes[other]
                /\ \A u \in now..host.max_time :
                      \A present \in SUBSET Range(ServerChannels[B]) :
                          sig_message_nick(o.f, enabled, B, present, u).stopped
                              => sig_message_nick(floodnet, enabled, B, present,
                                                  u).stopped

----------------------------------------------------------------------------
(* The tilde rule and the sender of the current message *)

\* the records of the window of f that carry the unverified-ident flag
UnverifiedIn(f) ==
    Cardinality({i \in 1..Len(f.message_window) : f.message_window[i].has_tilde})

\* 1 for an address with the unverified-ident marker, 0 for any other
Marked(nick, address) ==
    IF check_tilde_ident(IF strchr(address, 1, "!") # 0 THEN address
                         ELSE nick \o <<"!">> \o address)
    THEN 1 ELSE 0

\* C39: in an enabled engine, a private message from a verified-ident sender
\* whose text is neither in the purged window nor blocked, arriving when the
\* purged window holds at least tilde_threshold unverified-ident records, is
\* stopped by the tilde rule and its text is inserted into the blocklist with
\* expiry now + block_duration; and whoever the sender is, the tilde rule
\* fires only when the purged window's unverified-ident records, plus the
\* current one if its sender is unverified, number at least tilde_threshold.
C39_TildeByWindow ==
    \A nick \in Nicks, address \in host.addresses, text \in host.texts :
      \A most_common \in MostCommonChoices(floodnet, enabled, nick, address, text, now) :
        LET o == check_message_flood(floodnet, enabled, nick, address, text, now,
                                     most_common)
        IN  /\ (/\ enabled
                /\ Marked(nick, address) = 0
                /\ text \notin TextsIn(Purged)
                /\ ~is_message_blocked(Purged, text, now)
                /\ UnverifiedIn(Purged) >= floodnet.tilde_threshold)
               => /\ o.stopped
                  /\ o.path = "tilde"
                  /\ text \in DOMAIN o.f.blocked_patterns
                  /\ o.f.blocked_patterns[text] = now + floodnet.block_duration
            /\ o.path = "tilde"
               => UnverifiedIn(Purged) + Marked(nick, address)
                      >= floodnet.tilde_threshold

\* the tilde rule has just stopped a verified sender's message: its record is
\* the newest and the only one with its text, the older records include
\* tilde_threshold unverified ones, and its text entered the blocklist now
C39_Witness ==
    /\ ev.op = "privmsg" /\ ev.path = "tilde" /\ ev.stopped
    /\ floodnet.message_window # <<>>
    /\ ~Head(floodnet.message_window).has_tilde
    /\ Head(floodnet.message_window).timestamp = now
    /\ Occurrences(floodnet, Head(floodnet.message_window).text) = 1
    /\ UnverifiedIn(floodnet) >= floodnet.tilde_threshold
    /\ inserted_at.msg[Head(floodnet.message_window).text] = now
    /\ is_message_blocked(floodnet, Head(floodnet.message_window).text, now)

============================================================================
